---- MODULE Spec2Model ----
(***************************************************************************)
(* Vue anti-pattern detector: the VueAntiPatternDetector orchestrator      *)
(* (src/core/detector.js), the library entry points analyzeFile and        *)
(* analyzeFiles (index.js) and the reporter / CLI pieces they call.        *)
(*                                                                         *)
(* A source file is either text the SFC parser rejects, or a parsed        *)
(* component: an optional template (the compiler's AST) and an optional    *)
(* script block.  A script block holds one construct out of a catalogue    *)
(* of concrete snippets (ScriptSnippets); every detector is written for    *)
(* that catalogue by evaluating its regular expressions on the snippet     *)
(* text given in the comment next to each snippet.                         *)
(***************************************************************************)
EXTENDS Integers, Sequences, FiniteSets, TLC

VARIABLES
    detectors,   \* instance id -> VueAntiPatternDetector object, or NoInstance
    built,       \* instance id -> the options argument its constructor received
    last,        \* the most recent analyzeFile call and its FileResult (under
                 \* SpecDetector: the most recent detector call and its outcome)
    prev,        \* the call before it, kept when it analysed the same file
    batch,       \* the most recent analyzeFiles call and its outcome
    cli          \* the most recent `analyze` command: flags, config, options built

vars == <<detectors, built, last, prev, batch, cli>>

\* ------------------------------------------------------------------------
\* Bounds of the model
\* ------------------------------------------------------------------------
MaxInstances == 2      \* detector objects alive at the same time
MaxFiles == 2          \* length of the files list handed to analyzeFiles
MaxNesting == 11       \* deepest element chain among the templates

\* ------------------------------------------------------------------------
\* Small helpers
\* ------------------------------------------------------------------------
RECURSIVE Concat(_)
Concat(seqs) == IF seqs = <<>> THEN <<>> ELSE Head(seqs) \o Concat(Tail(seqs))

Range(s) == {s[i] : i \in DOMAIN s}

\* JavaScript strings whose characters matter are sequences of characters.
\* String.prototype.includes(sub)
Includes(s, sub) ==
    \E i \in 0..(Len(s) - Len(sub)) :
        \A j \in 1..Len(sub) : s[i + j] = sub[j]

\* s.split(c).length for a one-character separator
SplitLength(s, c) == Cardinality({i \in DOMAIN s : s[i] = c}) + 1

\* a string of n letters
Letters(n) == [i \in 1..n |-> "x"]

NoInstance == [absent |-> TRUE]
None == [absent |-> TRUE]
Instances == 1..MaxInstances

\* ------------------------------------------------------------------------
\* File paths: the facts String.prototype.includes / split compute on them
\* ------------------------------------------------------------------------
Paths == {"src/components/UserList.vue", "src/views/Home.vue", "tests/unit/Counter.spec.vue"}

\* filePath.includes('component')
pathIncludesComponent(filePath) == filePath = "src/components/UserList.vue"

\* filePath.includes('.spec.') || includes('.test.') || includes('__tests__') || includes('/tests/')
isTestFile(filePath) == filePath = "tests/unit/Counter.spec.vue"

\* filePath.split('/').pop().replace('.vue', '') then kebab-case -> PascalCase
fileComponentName(filePath) ==
    CASE filePath = "src/components/UserList.vue" -> "UserList"
      [] filePath = "src/views/Home.vue" -> "Home"
      [] OTHER -> "Counter.spec"

\* ------------------------------------------------------------------------
\* Thresholds (constructor and getDefaultThresholds)
\* ------------------------------------------------------------------------
getDefaultThresholds ==
    [ templateExpressionLength |-> 40, templateDepth |-> 6, deepTemplateDepth |-> 10,
      componentScriptLength |-> 500, componentMethodCount |-> 20,
      componentPropsCount |-> 15, componentComputedCount |-> 10,
      componentTemplateDepth |-> 6,
      virtualizationThreshold |-> 500, shallowReactivityThreshold |-> 1000,
      bundleContributionThreshold |-> 5,
      vuexStateProperties |-> 20, vuexMutations |-> 20, vuexActions |-> 15,
      vuexGetters |-> 20, typeCoverageThreshold |-> 95 ]

\* the registry, in the insertion order Object.entries walks
initializeDetectors ==
    << "VIF_WITH_VFOR", "VFOR_WITHOUT_KEY", "VFOR_INDEX_AS_KEY",
       "COMPLEX_TEMPLATE_EXPRESSION", "VHTML_XSS_RISK", "DEEP_TEMPLATE_NESTING",
       "GOD_COMPONENT", "SINGLE_WORD_COMPONENT_NAME", "PROP_DRILLING", "TIGHT_COUPLING",
       "REF_REACTIVE_CONFUSION", "DESTRUCTURING_REACTIVITY_LOSS", "COMPUTED_SIDE_EFFECTS",
       "DEEP_WATCHER_OVERUSE", "WATCHER_SHOULD_BE_COMPUTED",
       "VUEX_ASYNC_IN_MUTATION", "VUEX_GOD_STORE", "PINIA_CIRCULAR_DEPENDENCY",
       "PINIA_USESTORE_AFTER_AWAIT", "STATE_LOCALIZATION_ANTIPATTERN",
       "UNTYPED_PROVIDE_INJECT",
       "INFINITE_NAVIGATION_LOOP", "MISSING_LAZY_LOADING", "GOD_GUARD_ANTIPATTERN",
       "LARGE_LIST_NO_VIRTUALIZATION", "MISSING_SHALLOW_REACTIVITY",
       "EVENT_LISTENER_MEMORY_LEAK", "FULL_LIBRARY_IMPORT",
       "UNTYPED_PROPS", "UNTYPED_EMITS", "REF_TYPE_INFERENCE_ISSUES",
       "IMPLEMENTATION_TESTING", "PINIA_STATE_LEAK", "SNAPSHOT_OVERUSE" >>

\* An options argument is a record that may or may not carry a `thresholds`
\* key (a possibly partial, possibly empty object) and a `format` key.
hasKey(obj, k) == k \in DOMAIN obj

\* constructor(options = {}): `thresholds: options.thresholds || defaults` and
\* `verbose: options.verbose || false`, then the spread of options on top, so
\* every key of options (thresholds included) replaces what stands before it;
\* results and the registry are set afterwards.
VueAntiPatternDetector(options) ==
    [ options |->
        [ k \in DOMAIN options \cup {"thresholds", "verbose"} |->
            IF hasKey(options, k) THEN options[k]
            ELSE IF k = "thresholds" THEN getDefaultThresholds
            ELSE FALSE ],
      results |-> <<>>,
      detectors |-> initializeDetectors ]

\* `n > this.options.thresholds[k]`: a missing key reads undefined and the
\* comparison with undefined is false
exceedsThreshold(this, n, k) ==
    /\ hasKey(this.options.thresholds, k)
    /\ n > this.options.thresholds[k]

\* ------------------------------------------------------------------------
\* Issues and detector outcomes
\* ------------------------------------------------------------------------
Issue(pattern, severity, line, column) ==
    [pattern |-> pattern, severity |-> severity,
     location |-> [line |-> line, column |-> column]]

\* a detector either returns a list of issues or throws
Returns(issues) == [threw |-> FALSE, issues |-> issues]
Throws == [threw |-> TRUE, issues |-> <<>>]

\* ------------------------------------------------------------------------
\* Template AST, as @vue/compiler-sfc produces it
\*   node.type: 0 root, 1 element, 2 text, 5 interpolation
\*   prop.type: 6 attribute, 7 directive
\* ------------------------------------------------------------------------
Loc(line, column) == [start |-> [line |-> line, column |-> column]]

Directive(name, rawName, arg, exp, column) ==
    [type |-> 7, name |-> name, rawName |-> rawName, arg |-> arg, exp |-> exp,
     column |-> column]

NoArg == [absent |-> TRUE]
Arg(content) == [content |-> content]
Exp(content) == [content |-> content]

\* Directive expressions are kept as the sequence of their tokens: a maximal
\* run of word characters (\w+) is one token, every other character is a
\* token of its own.
\* The text of a v-for expression: `alias in list`, `(alias, index) in list`;
\* list is the token sequence of the expression after `in`.
ForExp(alias, index, list) ==
    (IF index = "" THEN <<alias>> ELSE <<"(", alias, ",", " ", index, ")">>)
        \o <<" ", "in", " ">> \o list

\* v-for="...": the directive carries the parser's own reading of the
\* expression (forParseResult: value is the alias, key the secondary variable)
VFor(alias, index, list, column) ==
    [type |-> 7, name |-> "for", rawName |-> "v-for", arg |-> NoArg,
     exp |-> Exp(ForExp(alias, index, list)), column |-> column,
     forParseResult |-> [value |-> alias, key |-> index]]

\* a static attribute  name="value"
Attribute(name, value, column) ==
    [type |-> 6, name |-> name, value |-> [content |-> value], column |-> column]

\* a text node; its content, a plain string no detector reads, is kept as text
Text(content, line) == [type |-> 2, text |-> content, loc |-> Loc(line, 5)]

Element(tag, props, children, line) ==
    [type |-> 1, tag |-> tag, props |-> props, children |-> children,
     loc |-> Loc(line, 3)]

Interpolation(expression, line) ==
    [type |-> 5, content |-> [content |-> expression], loc |-> Loc(line, 5)]

Root(children) == [type |-> 0, children |-> children]

\* <li v-for="user in users" v-if="user.isActive" :key="user.id">{{ user.name }}</li>
LiForIf ==
    Element("li",
        << VFor("user", "", <<"users">>, 7),
           Directive("if", "v-if", NoArg, Exp("user.isActive"), 29),
           Directive("bind", ":key", Arg("key"), Exp("user.id"), 50) >>,
        << Interpolation(<<"u","s","e","r",".","n","a","m","e">>, 3) >>, 2)

\* <div v-for="item in items"></div>
DivForNoKey ==
    Element("div",
        << VFor("item", "", <<"items">>, 8) >>,
        <<>>, 2)

\* <div v-for="(row, index) in rows" :key="index"></div>
DivForIndexKey ==
    Element("div",
        << VFor("row", "index", <<"rows">>, 8),
           Directive("bind", ":key", Arg("key"), Exp("index"), 38) >>,
        <<>>, 2)

\* <div v-html="rawHtml"></div>
DivVHtml ==
    Element("div", << Directive("html", "v-html", NoArg, Exp(<<"rawHtml">>), 8) >>, <<>>, 2)

\* k nested <div> elements, the outermost on the given line
RECURSIVE Chain(_, _)
Chain(k, line) ==
    IF k = 0 THEN <<>>
    ELSE << Element("div", <<>>, Chain(k - 1, line + 1), line) >>

\* expressions found between {{ and }}
Expressions ==
    { <<>>,                                        \* {{ }}
      <<"t","i","t","l","e">>,                     \* {{ title }}
      <<"f","(","x",")">>,                         \* {{ f(x) }}
      <<"a"," ","?"," ","b"," ",":"," ","c">>,     \* {{ a ? b : c }}
      <<"a"," ","&","&"," ","b">>,                 \* {{ a && b }}
      <<"a",".","b",".","c">>,                     \* {{ a.b.c }}
      Letters(41), Letters(51), Letters(81) }      \* one long identifier

Depths == {1, 7, 8, MaxNesting}

TemplateChildren ==
    { <<>>, <<LiForIf>>, <<DivForNoKey>>, <<DivForIndexKey>>, <<DivVHtml>> }
    \cup { << Interpolation(e, 2) >> : e \in Expressions }
    \cup { Chain(k, 2) : k \in Depths }

\* --- the markup of the detector fixtures -----------------------------------
VIf(exp, column) == Directive("if", "v-if", NoArg, Exp(exp), column)
BindKey(exp, column) == Directive("bind", ":key", Arg("key"), Exp(exp), column)
VHtml(exp, column) == Directive("html", "v-html", NoArg, Exp(exp), column)

\* <div v-for="item in items" v-if="item.ok" :key="item.id">
\*   <li v-for="sub in item.subs" v-if="sub.ok" :key="sub.id"></li>
\* </div>
NestedForIf ==
    Element("div",
        << VFor("item", "", <<"items">>, 8), VIf("item.ok", 30), BindKey("item.id", 45) >>,
        << Element("li",
               << VFor("sub", "", <<"item", ".", "subs">>, 9), VIf("sub.ok", 34),
                  BindKey("sub.id", 48) >>,
               <<>>, 3) >>, 2)

\* <li v-for="a in as" v-if="a.ok" :key="a.id"></li>
\* <li v-if="b.ok" v-for="b in bs" :key="b.id"></li>
SiblingsForIf ==
    << Element("li", << VFor("a", "", <<"as">>, 7), VIf("a.ok", 22), BindKey("a.id", 35) >>,
               <<>>, 2),
       Element("li", << VIf("b.ok", 7), VFor("b", "", <<"bs">>, 20), BindKey("b.id", 35) >>,
               <<>>, 3) >>

\* <div v-if="visible"><span v-for="tag in tags" :key="tag"></span></div>
IfAroundFor ==
    Element("div", << VIf("visible", 8) >>,
        << Element("span", << VFor("tag", "", <<"tags">>, 9), BindKey("tag", 30) >>,
                   <<>>, 3) >>, 2)

\* <div v-for="item in items" key="row"></div>
DivForStaticKey ==
    Element("div", << VFor("item", "", <<"items">>, 8), Attribute("key", "row", 30) >>,
            <<>>, 2)

\* <div v-for="item in items" v-bind:key="item.id"></div>
DivForLongBindKey ==
    Element("div",
        << VFor("item", "", <<"items">>, 8),
           Directive("bind", "v-bind:key", Arg("key"), Exp("item.id"), 30) >>, <<>>, 2)

\* <ul><li v-for="user in users">{{ user.name }}</li></ul>
UlLiForNoKey ==
    Element("ul", <<>>,
        << Element("li", << VFor("user", "", <<"users">>, 9) >>,
                   << Interpolation(<<"u","s","e","r",".","n","a","m","e">>, 3) >>, 3) >>, 2)

\* <li v-for="(item, i) in visible(rows, page)" :key="i"></li>
LiCallListIndexKey ==
    Element("li",
        << VFor("item", "i", <<"visible", "(", "rows", ",", " ", "page", ")">>, 7),
           BindKey("i", 50) >>, <<>>, 2)

\* <li v-for="row in page(rows, n)" :key="n"></li>
LiCallListNoIndex ==
    Element("li",
        << VFor("row", "", <<"page", "(", "rows", ",", " ", "n", ")">>, 7),
           BindKey("n", 38) >>, <<>>, 2)

\* <li v-for="(user, i) in users" :key="user.id"></li>
LiIdKey ==
    Element("li", << VFor("user", "i", <<"users">>, 7), BindKey("user.id", 36) >>, <<>>, 2)

\* <li v-for="(user, i) in users" :key="i"></li>
LiShortIndexKey ==
    Element("li", << VFor("user", "i", <<"users">>, 7), BindKey("i", 36) >>, <<>>, 2)

\* <li v-for="(item, idx) in items" :key="idx">
\*   <span v-for="(subItem, subIdx) in item.subItems" :key="subIdx"></span>
\* </li>
NestedIndexKey ==
    Element("li", << VFor("item", "idx", <<"items">>, 7), BindKey("idx", 38) >>,
        << Element("span",
               << VFor("subItem", "subIdx", <<"item", ".", "subItems">>, 11),
                  BindKey("subIdx", 58) >>, <<>>, 3) >>, 2)

\* v-html expressions: rawHtml, apiResponse.html, render(markdown), '<b>static</b>'
VHtmlExpressions ==
    { <<"rawHtml">>,
      <<"apiResponse", ".", "html">>,
      <<"render", "(", "markdown", ")">>,
      <<"'", "<", "b", ">", "static", "<", "/", "b", ">", "'">> }

\* <div v-html="..."></div>
DivVHtmlOf(exp) == Element("div", << VHtml(exp, 8) >>, <<>>, 2)

\* expressions of the complex-expressions fixture and calls of several lengths
FixtureExpressions ==
    { <<"u","s","e","r",".","n","a","m","e">>,           \* {{ user.name }}
      <<"c","o","u","n","t"," ","+"," ","1">>,           \* {{ count + 1 }}
      <<"i","s","A","c","t","i","v","e"," ","?"," ","'","Y","e","s","'",
        " ",":"," ","'","N","o","'">>,                   \* {{ isActive ? 'Yes' : 'No' }}
      <<"a",".","b",".","c","(",")">>,                   \* {{ a.b.c() }}
      Letters(41) \o <<"(", ")">>,                       \* a call of 43 characters
      Letters(81) \o <<"(", ")">> }                      \* a call of 83 characters

\* a root whose chains of nested <div> have depths k and h
Branches(k, h) == Chain(k, 2) \o Chain(h, 2 + k)

\* the templates the detectors are invoked on
MarkupShapes ==
    { <<LiForIf>>, <<NestedForIf>>, SiblingsForIf, <<IfAroundFor>>,
      <<DivForNoKey>>, <<DivForStaticKey>>, <<DivForLongBindKey>>, <<UlLiForNoKey>>,
      <<DivForIndexKey>>, <<LiCallListIndexKey>>, <<LiCallListNoIndex>>,
      <<LiIdKey>>, <<LiShortIndexKey>>, <<NestedIndexKey>>,
      << Text("hello", 2) >>,
      << Text("hello", 2), Interpolation(<<"t","i","t","l","e">>, 3) >>,
      << Interpolation(<<"f","(","x",")">>, 2), Interpolation(<<"a",".","b",".","c">>, 3) >>,
      << Interpolation(<<"f","(","x",")">>, 2), Interpolation(<<>>, 3) >>,
      Branches(3, 1), Branches(1, 2) }
    \cup { << DivVHtmlOf(e) >> : e \in VHtmlExpressions }
    \cup { << Interpolation(e, 2) >> : e \in Expressions \cup FixtureExpressions }
    \cup { Chain(k, 2) : k \in 0..MaxNesting }

\* sfc.descriptor.template: null without a <template> block
NoTemplate == [absent |-> TRUE]
Template(children) == [ast |-> Root(children)]
Templates == {NoTemplate} \cup { Template(c) : c \in TemplateChildren }

hasTemplate(sfc) == hasKey(sfc.descriptor.template, "ast")

\* template.content, the raw text: empty exactly when the block has no children
templateContentIsEmpty(template) == template.ast.children = <<>>

\* faulty variant: a walk that stops at the children of the root
traverseTemplateShallow(node) ==
    IF node.type = 0 THEN <<node>> \o node.children ELSE <<node>>

\* traverseTemplate(node, callback): the nodes in the order the callback sees them
RECURSIVE traverseTemplate(_)
traverseTemplate(node) ==
    IF node.type \in {0, 1}
      THEN <<node>> \o Concat([i \in DOMAIN node.children |->
                                   traverseTemplate(node.children[i])])
      ELSE <<node>>

hasDirective(node, directiveName) ==
    \E i \in DOMAIN node.props :
        node.props[i].type = 7 /\ node.props[i].name = directiveName

getDirective(node, directiveName) ==
    LET i == CHOOSE j \in DOMAIN node.props :
                 /\ node.props[j].type = 7 /\ node.props[j].name = directiveName
                 /\ \A h \in 1..(j - 1) :
                        ~(node.props[h].type = 7 /\ node.props[h].name = directiveName)
    IN node.props[i]

\* prop.type === 7 && prop.name === 'bind' && prop.arg?.content === 'key'
isKeyDirective(prop) ==
    /\ prop.type = 7 /\ prop.name = "bind"
    /\ hasKey(prop.arg, "content") /\ prop.arg.content = "key"

getNodeLocation(node) == node.loc.start

\* faulty variant: a depth to which children of every kind add
RECURSIVE getMaxTemplateDepthAnyChild(_, _)
getMaxTemplateDepthAnyChild(node, currentDepth) ==
    IF ~hasKey(node, "children") THEN currentDepth
    ELSE LET below == { getMaxTemplateDepthAnyChild(node.children[i], currentDepth + 1) :
                          i \in DOMAIN node.children }
         IN IF below = {} THEN currentDepth
            ELSE CHOOSE d \in below : \A e \in below : e <= d

\* getMaxTemplateDepth(node, currentDepth): only element children add depth
RECURSIVE getMaxTemplateDepth(_, _)
getMaxTemplateDepth(node, currentDepth) ==
    IF ~hasKey(node, "children") THEN currentDepth
    ELSE LET below == { getMaxTemplateDepth(node.children[i], currentDepth + 1) :
                          i \in {j \in DOMAIN node.children : node.children[j].type = 1} }
         IN IF below = {} THEN currentDepth
            ELSE CHOOSE d \in below : \A e \in below : e <= d

\* the issues a callback pushes while the template is traversed
OverNodes(template, visit(_)) ==
    LET nodes == traverseTemplate(template.ast)
    IN Concat([i \in DOMAIN nodes |-> visit(nodes[i])])

\* ------------------------------------------------------------------------
\* Script blocks.  script.content is one of the snippets below; the text a
\* snippet stands for is given next to it, and every regular expression of
\* the detectors was evaluated on that text.
\* ------------------------------------------------------------------------
Snippet(kind) == [kind |-> kind]

\* import lib from '<lib>'
ImportDefault(lib) == [kind |-> "importDefault", lib |-> lib]
\* import { map } from '<lib>'
ImportNamed(lib) == [kind |-> "importNamed", lib |-> lib]
\* export default { name: '<name>' }
ExportName(name) == [kind |-> "exportName", name |-> name]
\* const total = computed(() => { <body> })
ComputedArrow(body) == [kind |-> "computedArrow", body |-> body]
\* watch(count, (v) => { <body> })        body "" is watch(count, (v) => {})
WatchFn(body) == [kind |-> "watchFn", body |-> body]
\* const store = createStore({ state: { k1: 0, ... }, mutations: { m1: set('m1'), ... },
\*                             actions: { a1: run('a1'), ... }, getters: { g1: get('g1'), ... } })
\* laid out over totalLines lines; a block with count 0 is left out
Store(stateCount, mutationsCount, actionsCount, gettersCount, totalLines) ==
    [kind |-> "store", stateCount |-> stateCount, mutationsCount |-> mutationsCount,
     actionsCount |-> actionsCount, gettersCount |-> gettersCount,
     totalLines |-> totalLines]
\* const <name> = ref(<arg>)
RefDecl(name, arg) == [kind |-> "refDecl", name |-> name, arg |-> arg]
\* router.beforeEach((to, from, next) => { [next('/login')] <others> }) whose body
\* spans lineCount lines; `others` counts the responsibilities besides redirection
\* that analyzeGuardResponsibilities recognises in it (checkAuth(), canAccess(),
\* loadData(), track(), to.meta, setLoading(), dispatch(), throw, ...)
Guard(others, redirect, lineCount) ==
    [kind |-> "guard", others |-> others, redirect |-> redirect, lineCount |-> lineCount]
\* it('renders', () => { expect(tree).toMatchSnapshot() })    (snapshots = 1)
\* it('adds', () => { expect(sum).toBe(3) })                  (snapshots = 0)
TestIt(snapshots) == [kind |-> "testIt", snapshots |-> snapshots]
\* `tests` lines  it('tN', function () { ... })  of which `snapshots` hold
\* expect(tree).toMatchSnapshot(), or expect(wrapper.element).toMatchSnapshot()
\* when onWrapper
TestFn(snapshots, tests, onWrapper) ==
    [kind |-> "testFn", snapshots |-> snapshots, tests |-> tests, onWrapper |-> onWrapper]

\* export default {
\*   props: ['p1', ..., 'pN'],
\*   computed: { c1: selectC1, ..., cN: selectCN },
\*   methods: { m1() { return 1 }, ..., mN() { return N } }
\* }
\* laid out over `lines` lines; a block with count 0 is left out
Component(lines, methods, props, computed) ==
    [kind |-> "component", lines |-> lines, methods |-> methods, props |-> props,
     computed |-> computed]

Libraries == {"lodash", "underscore", "axios", "vue", "constructor", "vue-virtual-scroller"}

StoreShapes ==
    { Store(1, 0, 0, 0, 1), Store(11, 0, 0, 0, 12), Store(21, 11, 9, 11, 60),
      Store(41, 21, 16, 21, 201), Store(51, 36, 26, 36, 401),
      Store(51, 51, 41, 51, 701), Store(1, 0, 0, 0, 1001) }

GuardShapes ==
    { Guard(0, FALSE, 1), Guard(0, TRUE, 1), Guard(3, TRUE, 1), Guard(3, FALSE, 31),
      Guard(5, FALSE, 1), Guard(6, FALSE, 1), Guard(0, FALSE, 51),
      Guard(0, FALSE, 76), Guard(0, FALSE, 101) }

ScriptSnippets ==
    { ImportDefault(lib) : lib \in Libraries }
    \cup { ImportNamed(lib) : lib \in {"lodash", "lodash-es"} }
    \cup { ExportName(name) : name \in {"UserCard", "div"} }
    \cup { Snippet("parentCall"),           \* this.$parent.refresh()
           Snippet("reactivePrimitive"),    \* const count = reactive(0)
           Snippet("reactiveDestructure"),  \* const { a } = reactive(form)
           Snippet("watchDeep"),            \* watch(obj, onChange, { deep: true })
           Snippet("mutationsAsync"),       \* const mutations = { load(state) { fetch(url) } }
           Snippet("piniaCircular"),        \* export const useA = defineStore('a', { getters: { n: () => b.count } })
                                            \* export const useB = defineStore('b', { getters: { m: () => a.count } })
           Snippet("useStores"),            \* const a = useStore('a'); const b = useStore('b')
           Snippet("setupAwait"),           \* async setup() { await load(); const s = useStore() }
           Snippet("dataReturn"),           \* data() { return { user: null } }
           Snippet("provideString"),        \* provide('theme', theme)
           Snippet("routes"),               \* import Home from './Home.vue'
                                            \* const routes = [{ path: '/', component: Home }]
           Snippet("listener"),             \* window.addEventListener('resize', onResize)
           Snippet("propsArray"),           \* props: ['title']
           Snippet("definePropsArray"),     \* const props = defineProps(['title'])
           Snippet("defineEmitsArray"),     \* const emit = defineEmits(['change'])
           Snippet("emitsOption"),          \* emits: ['change']
           Snippet("wrapperVm") }           \* expect(wrapper.vm.count).toBe(1)
    \cup { ComputedArrow(b) : b \in {"this.count++", "console.log(1)", "a + b"} }
    \cup { WatchFn(b) : b \in {"", "total.value = a.value + b.value",
                               "form.total = 1", "console.log(v)"} }
    \cup StoreShapes
    \cup { RefDecl(n, a) : n \in {"count", "theme"},
                           a \in {"0", "null", "undefined", "data", "new Array(5000)"} }
    \cup GuardShapes
    \cup { TestIt(n) : n \in {0, 1} }
    \cup { TestFn(1, 1, FALSE), TestFn(2, 3, FALSE), TestFn(1, 3, FALSE), TestFn(1, 1, TRUE) }

\* sfc.descriptor.script: null without a <script> block; content '' when empty
NoScript == [absent |-> TRUE]
Script(content) == [content |-> content]
Scripts == {NoScript, Script(Snippet("empty"))} \cup { Script(c) : c \in ScriptSnippets }

\* the parsed component parseSFC returns
Sfc(template, script) == [descriptor |-> [template |-> template, script |-> script]]

\* `!script || !script.content` is false
hasScriptContent(sfc) ==
    /\ hasKey(sfc.descriptor.script, "content")
    /\ sfc.descriptor.script.content.kind # "empty"

\* scriptContent.split('\n').length
scriptLines(c) ==
    CASE c.kind = "store" -> c.totalLines
      [] c.kind = "component" -> c.lines
      [] c.kind = "guard" -> c.lineCount
      [] c.kind = "testFn" -> c.tests
      [] c.kind \in {"piniaCircular", "routes"} -> 2
      [] OTHER -> 1

\* ------------------------------------------------------------------------
\* Template detectors
\* ------------------------------------------------------------------------
detectVIfWithVFor(this, sfc, filePath) ==
    IF ~hasTemplate(sfc) THEN Returns(<<>>)
    ELSE Returns(OverNodes(sfc.descriptor.template, LAMBDA node :
            IF node.type = 1 /\ hasDirective(node, "for") /\ hasDirective(node, "if")
              THEN << Issue("VIF_WITH_VFOR", "CRITICAL",
                            getNodeLocation(node).line, getNodeLocation(node).column) >>
              ELSE <<>>))

\* faulty variant: only a bound :key counts as a key
detectVForWithoutKeyBoundOnly(this, sfc, filePath) ==
    IF ~hasTemplate(sfc) THEN Returns(<<>>)
    ELSE Returns(OverNodes(sfc.descriptor.template, LAMBDA node :
            IF node.type = 1 /\ hasDirective(node, "for")
                 /\ ~\E i \in DOMAIN node.props : isKeyDirective(node.props[i])
              THEN << Issue("VFOR_WITHOUT_KEY",
                            IF pathIncludesComponent(filePath) THEN "CRITICAL" ELSE "HIGH",
                            getNodeLocation(node).line, getNodeLocation(node).column) >>
              ELSE <<>>))

detectVForWithoutKey(this, sfc, filePath) ==
    IF ~hasTemplate(sfc) THEN Returns(<<>>)
    ELSE Returns(OverNodes(sfc.descriptor.template, LAMBDA node :
            IF node.type = 1 /\ hasDirective(node, "for")
              THEN LET hasKeyDirective ==
                           \E i \in DOMAIN node.props : isKeyDirective(node.props[i])
                       hasKeyAttribute ==
                           \E i \in DOMAIN node.props :
                               node.props[i].type = 6 /\ node.props[i].name = "key"
                       severity == IF pathIncludesComponent(filePath)
                                     THEN "CRITICAL" ELSE "HIGH"
                   IN IF ~hasKeyDirective /\ ~hasKeyAttribute
                        THEN << Issue("VFOR_WITHOUT_KEY", severity,
                                      getNodeLocation(node).line,
                                      getNodeLocation(node).column) >>
                        ELSE <<>>
              ELSE <<>>))

\* the tokens that are not words (\w+)
punctuation ==
    {"(", ")", ",", " ", ".", "'", "$", "{", "}", "<", ">", "/", "+",
     ":", "=", "[", "]", ";", "!", "-", "*", "?", "&", "|", "\"", "\n"}

isWord(token) == token \notin punctuation

\* forContent.match(/\(.*,\s*(\w+)\)/): <<>> without a match, else <<forMatch[1]>>.
\* The match starts at the first `(`; `.*` is greedy, so the comma of the match
\* is the last comma of the text that is followed by optional blanks, one
\* word and `)`; the word is the capture.
forIndexMatch(forContent) ==
    LET n == Len(forContent)
        afterBlanks(q) ==
            CHOOSE r \in (q + 1)..(n + 1) :
                /\ \A h \in (q + 1)..(r - 1) : forContent[h] = " "
                /\ r <= n => forContent[r] # " "
        commas ==
            { q \in 1..n :
                /\ forContent[q] = ","
                /\ \E p \in 1..(q - 1) : forContent[p] = "("
                /\ afterBlanks(q) + 1 <= n
                /\ isWord(forContent[afterBlanks(q)])
                /\ forContent[afterBlanks(q) + 1] = ")" }
    IN IF commas = {} THEN <<>>
       ELSE LET last_comma == CHOOSE q \in commas : \A h \in commas : h <= q
            IN << forContent[afterBlanks(last_comma)] >>

detectVForIndexAsKey(this, sfc, filePath) ==
    IF ~hasTemplate(sfc) THEN Returns(<<>>)
    ELSE Returns(OverNodes(sfc.descriptor.template, LAMBDA node :
            IF node.type = 1 /\ hasDirective(node, "for")
                 /\ \E i \in DOMAIN node.props : isKeyDirective(node.props[i])
              THEN LET keyDirective ==
                           node.props[CHOOSE i \in DOMAIN node.props :
                               /\ isKeyDirective(node.props[i])
                               /\ \A h \in 1..(i - 1) : ~isKeyDirective(node.props[h])]
                       forMatch == forIndexMatch(getDirective(node, "for").exp.content)
                   IN IF forMatch # <<>> /\ keyDirective.exp.content = forMatch[1]
                        THEN << Issue("VFOR_INDEX_AS_KEY", "HIGH",
                                      getNodeLocation(node).line,
                                      getNodeLocation(node).column) >>
                        ELSE <<>>
              ELSE <<>>))

\* faulty variant: a cascade that looks at the length tiers before the features
expressionSeverityLengthFirst(this, expression) ==
    LET charCount == Len(expression)
        hasChain == Includes(expression, <<".">>)
        hasConditional == \/ Includes(expression, <<"?">>)
                          \/ Includes(expression, <<"&", "&">>)
                          \/ Includes(expression, <<"|", "|">>)
        hasFunction == Includes(expression, <<"(">>) /\ Includes(expression, <<")">>)
    IN IF exceedsThreshold(this, charCount, "templateExpressionLength") THEN "CRITICAL"
       ELSE IF charCount > 80 THEN "HIGH"
       ELSE IF charCount > 50 THEN "MEDIUM"
       ELSE IF hasFunction THEN "CRITICAL"
       ELSE IF hasChain /\ SplitLength(expression, ".") > 2 THEN "HIGH"
       ELSE IF hasConditional THEN "MEDIUM"
       ELSE "LOW"

\* severity cascade of one interpolation expression
expressionSeverity(this, expression) ==
    LET charCount == Len(expression)
        hasChain == Includes(expression, <<".">>)
        hasConditional == \/ Includes(expression, <<"?">>)
                          \/ Includes(expression, <<"&", "&">>)
                          \/ Includes(expression, <<"|", "|">>)
        hasFunction == Includes(expression, <<"(">>) /\ Includes(expression, <<")">>)
    IN IF exceedsThreshold(this, charCount, "templateExpressionLength") \/ hasFunction
         THEN "CRITICAL"
       ELSE IF charCount > 80 \/ (hasChain /\ SplitLength(expression, ".") > 2)
         THEN "HIGH"
       ELSE IF charCount > 50 \/ hasConditional
         THEN "MEDIUM"
       ELSE "LOW"

\* `node.content?.content || node.content`: for {{ }} the inner content is ''
\* and the expression is the content object, which has no includes()
detectComplexTemplateExpression(this, sfc, filePath) ==
    IF ~hasTemplate(sfc) THEN Returns(<<>>)
    ELSE LET nodes == traverseTemplate(sfc.descriptor.template.ast)
         IN IF \E i \in DOMAIN nodes :
                   nodes[i].type = 5 /\ nodes[i].content.content = <<>>
              THEN Throws
              ELSE Returns(OverNodes(sfc.descriptor.template, LAMBDA node :
                     IF node.type = 5
                          /\ expressionSeverity(this, node.content.content) # "LOW"
                       THEN << Issue("COMPLEX_TEMPLATE_EXPRESSION",
                                     expressionSeverity(this, node.content.content),
                                     getNodeLocation(node).line,
                                     getNodeLocation(node).column) >>
                       ELSE <<>>))

\* isDynamicContent(content): content && (includes '{{' or '$' or '(')
isDynamicContent(prop) ==
    /\ hasKey(prop, "value")
    /\ \/ Includes(prop.value, <<"{", "{">>)
       \/ Includes(prop.value, <<"$">>)
       \/ Includes(prop.value, <<"(">>)

isVHtml(prop) == prop.type = 7 /\ prop.rawName = "v-html"

detectVHtmlXssRisk(this, sfc, filePath) ==
    IF ~hasTemplate(sfc) THEN Returns(<<>>)
    ELSE Returns(OverNodes(sfc.descriptor.template, LAMBDA node :
            IF node.type = 1 /\ \E i \in DOMAIN node.props : isVHtml(node.props[i])
              THEN LET vHtmlAttr ==
                           node.props[CHOOSE i \in DOMAIN node.props :
                               /\ isVHtml(node.props[i])
                               /\ \A h \in 1..(i - 1) : ~isVHtml(node.props[h])]
                       severity == IF isDynamicContent(vHtmlAttr)
                                     THEN "CRITICAL" ELSE "HIGH"
                   IN << Issue("VHTML_XSS_RISK", severity,
                               getNodeLocation(node).line, getNodeLocation(node).column) >>
              ELSE <<>>))

\* faulty variant: a depth equal to templateDepth is reported as well
detectDeepTemplateNestingAtLeast(this, sfc, filePath) ==
    IF ~hasTemplate(sfc) THEN Returns(<<>>)
    ELSE LET maxDepth == getMaxTemplateDepth(sfc.descriptor.template.ast, 0)
         IN IF hasKey(this.options.thresholds, "templateDepth")
                 /\ maxDepth >= this.options.thresholds.templateDepth
              THEN Returns(<< Issue("DEEP_TEMPLATE_NESTING",
                                    IF exceedsThreshold(this, maxDepth, "deepTemplateDepth")
                                      THEN "CRITICAL"
                                    ELSE IF maxDepth > 7 THEN "HIGH" ELSE "MEDIUM", 1, 1) >>)
              ELSE Returns(<<>>)

detectDeepTemplateNesting(this, sfc, filePath) ==
    IF ~hasTemplate(sfc) THEN Returns(<<>>)
    ELSE LET maxDepth == getMaxTemplateDepth(sfc.descriptor.template.ast, 0)
             severity == IF exceedsThreshold(this, maxDepth, "deepTemplateDepth")
                           THEN "CRITICAL"
                         ELSE IF maxDepth > 7 THEN "HIGH" ELSE "MEDIUM"
         IN IF exceedsThreshold(this, maxDepth, "templateDepth")
              THEN Returns(<< Issue("DEEP_TEMPLATE_NESTING", severity, 1, 1) >>)
              ELSE Returns(<<>>)

\* ------------------------------------------------------------------------
\* Component-level detectors
\* ------------------------------------------------------------------------
\* (scriptContent.match(/(\w+)\([^)]*\)\s*{/g) || []).length
methodCount(c) ==
    CASE c.kind \in {"mutationsAsync", "setupAwait", "dataReturn"} -> 1
      [] c.kind = "testFn" -> c.tests          \* it('tN', function () {
      [] c.kind = "component" -> c.methods     \* mN() {
      [] OTHER -> 0

\* quotes inside the first props: [...] match, halved
propsCount(c) ==
    CASE c.kind = "propsArray" -> 1
      [] c.kind = "component" -> c.props
      [] OTHER -> 0

\* computedMatches[0].match(/(\w+):/g).length: computedMatches[0] is the whole
\* text `computed: { c1: selectC1, ... }`, so the word `computed:` is counted
\* with the keys
computedCount(c) ==
    IF c.kind = "component" /\ c.computed > 0 THEN c.computed + 1 ELSE 0

detectGodComponent(this, sfc, filePath) ==
    IF ~hasKey(sfc.descriptor.script, "content") THEN Returns(<<>>)
    ELSE LET c == sfc.descriptor.script.content
             templateDepth == IF hasTemplate(sfc)
                                THEN getMaxTemplateDepth(sfc.descriptor.template.ast, 0)
                                ELSE 0
             violations ==
                 (IF exceedsThreshold(this, scriptLines(c), "componentScriptLength")
                    THEN <<"Script LOC">> ELSE <<>>)
                 \o (IF exceedsThreshold(this, methodCount(c), "componentMethodCount")
                       THEN <<"Methods">> ELSE <<>>)
                 \o (IF exceedsThreshold(this, propsCount(c), "componentPropsCount")
                       THEN <<"Props">> ELSE <<>>)
                 \o (IF exceedsThreshold(this, computedCount(c), "componentComputedCount")
                       THEN <<"Computed">> ELSE <<>>)
                 \o (IF exceedsThreshold(this, templateDepth, "componentTemplateDepth")
                       THEN <<"Template depth">> ELSE <<>>)
             severity == IF Len(violations) > 3 THEN "CRITICAL"
                         ELSE IF Len(violations) > 2 THEN "HIGH" ELSE "MEDIUM"
         IN IF Len(violations) > 0
              THEN Returns(<< Issue("GOD_COMPONENT", severity, 1, 1) >>)
              ELSE Returns(<<>>)

\* script name: '...' first, the file name otherwise
extractComponentName(sfc, filePath) ==
    IF hasScriptContent(sfc) /\ sfc.descriptor.script.content.kind = "exportName"
      THEN sfc.descriptor.script.content.name
      ELSE fileComponentName(filePath)

\* componentName === componentName.toLowerCase(), without '-' or '_'
isLowercaseSingleWord(componentName) ==
    componentName # "App" /\ componentName \in {"div"}

htmlElements ==
    { "div", "span", "input", "button", "form", "table", "tr", "td", "th", "ul", "li",
      "ol", "p", "h1", "h2", "h3", "h4", "h5", "h6", "a", "img", "select", "option",
      "textarea", "label", "section", "article", "header", "footer", "nav", "aside",
      "main" }

detectSingleWordComponentName(this, sfc, filePath) ==
    LET componentName == extractComponentName(sfc, filePath)
    IN IF isLowercaseSingleWord(componentName) /\ componentName \in htmlElements
         THEN Returns(<< Issue("SINGLE_WORD_COMPONENT_NAME", "CRITICAL", 1, 1) >>)
         ELSE Returns(<<>>)

\* ------------------------------------------------------------------------
\* Script text.  A script whose characters matter is the sequence of its
\* tokens: a maximal run of word characters (\w+) is one token, every other
\* character a token of its own.  The scripts are written on one line.
\* ------------------------------------------------------------------------
at(text, i) == IF i \in DOMAIN text THEN text[i] ELSE ""

wordAt(text, i) == i \in DOMAIN text /\ isWord(text[i])

\* \s: a blank or a line break
whitespace == {" ", "\n"}

\* where \s* started at i stops
skipBlanks(text, i) ==
    CHOOSE j \in i..(Len(text) + 1) :
        /\ \A k \in i..(j - 1) : text[k] \in whitespace
        /\ at(text, j) \notin whitespace

\* where \s+ started at i stops, 0 when there is no blank at i
skipSomeBlanks(text, i) == IF at(text, i) \in whitespace THEN skipBlanks(text, i) ELSE 0

\* the first position from i on that holds one of the tokens, 0 when none does
indexOf(text, tokens, i) ==
    LET found == { j \in i..Len(text) : text[j] \in tokens }
    IN IF found = {} THEN 0 ELSE CHOOSE j \in found : \A k \in found : j <= k

\* a match of a regular expression: match.index, the position after its last
\* token, and its capture groups
Match(index, end, groups) == [index |-> index, end |-> end, groups |-> groups]

\* {([^}]*)} at position open: the block runs to the first '}'
braceBlock(text, index, open) ==
    LET close == indexOf(text, {"}"}, open + 1)
    IN IF at(text, open) = "{" /\ close # 0
         THEN << Match(index, close + 1, << SubSeq(text, open + 1, close - 1) >>) >>
         ELSE <<>>

\* a match followed by \s* and the token `closer`, <<>> when it is not
closedBy(text, match, closer) ==
    IF match # <<>> /\ at(text, skipBlanks(text, match[1].end)) = closer
      THEN << Match(match[1].index, skipBlanks(text, match[1].end) + 1, match[1].groups) >>
      ELSE <<>>

quotes == {"'", "\""}

\* const\s+mutations\s*=\s* at i: the position after it, 0 when it is not there
constMutations(text, i) ==
    LET a == skipSomeBlanks(text, i + 1)
        b == skipBlanks(text, a + 1)
    IN IF at(text, i) = "const" /\ a # 0 /\ at(text, a) = "mutations" /\ at(text, b) = "="
         THEN skipBlanks(text, b + 1) ELSE 0

\* \([^)]*\)\s*=>\s*\{ at position open: the position of the `{`, else 0
arrowHead(text, open) ==
    LET close == indexOf(text, {")"}, open + 1)
        arrow == skipBlanks(text, close + 1)
    IN IF at(text, open) = "(" /\ close # 0 /\ at(text, arrow) = "="
            /\ at(text, arrow + 1) = ">"
         THEN skipBlanks(text, arrow + 2) ELSE 0

\* \{([\s\S]*?)\} at position open: the lazy body ends at the first `}`; with
\* `closer`, at the first `}` that \s* and the closer follow
lazyBlock(text, index, open, closer) ==
    LET ends == { k \in (open + 1)..Len(text) :
                    /\ text[k] = "}"
                    /\ closer # "" => at(text, skipBlanks(text, k + 1)) = closer }
    IN IF open # 0 /\ at(text, open) = "{" /\ ends # {}
         THEN LET k == CHOOSE k \in ends : \A j \in ends : k <= j
              IN << Match(index,
                          IF closer = "" THEN k + 1 ELSE skipBlanks(text, k + 1) + 1,
                          << SubSeq(text, open + 1, k - 1) >>) >>
         ELSE <<>>

\* /router\.<hook>\s*\(\s*\([^)]*\)\s*=>\s*\{([\s\S]*?)\}\s*\)/g
routerGuard(text, i, hook) ==
    IF at(text, i) = "router" /\ at(text, i + 1) = "." /\ at(text, i + 2) = hook
         /\ at(text, skipBlanks(text, i + 3)) = "("
      THEN lazyBlock(text, i,
                     arrowHead(text, skipBlanks(text, skipBlanks(text, i + 3) + 1)), ")")
      ELSE <<>>

\* /function\s+(?:<hooks>)\s*\([^)]*\)\s*\{([\s\S]*?)\}/g
guardFunction(text, i, hooks) ==
    LET name == skipSomeBlanks(text, i + 1)
        open == skipBlanks(text, name + 1)
        close == indexOf(text, {")"}, open + 1)
    IN IF at(text, i) = "function" /\ name # 0 /\ at(text, name) \in hooks
            /\ at(text, open) = "(" /\ close # 0
         THEN lazyBlock(text, i, skipBlanks(text, close + 1), "")
         ELSE <<>>

\* /const\s+(?:<hooks>)\s*=\s*\([^)]*\)\s*=>\s*\{([\s\S]*?)\}/g
guardArrow(text, i, hooks) ==
    LET name == skipSomeBlanks(text, i + 1)
        equals == skipBlanks(text, name + 1)
    IN IF at(text, i) = "const" /\ name # 0 /\ at(text, name) \in hooks
            /\ at(text, equals) = "="
         THEN lazyBlock(text, i, arrowHead(text, skipBlanks(text, equals + 1)), "")
         ELSE <<>>

guardHooks == {"beforeEach", "beforeResolve", "afterEach"}

\* String.prototype.trim()
RECURSIVE trim(_)
trim(text) ==
    IF text # <<>> /\ Head(text) \in whitespace THEN trim(Tail(text))
    ELSE IF text # <<>> /\ text[Len(text)] \in whitespace
           THEN trim(SubSeq(text, 1, Len(text) - 1))
    ELSE text

\* parseInt of the numerals that occur in the templates analysed
numerals ==
    [n \in {"99", "100", "250", "499", "500", "999", "1000", "5000"} |->
        CASE n = "99" -> 99 [] n = "100" -> 100 [] n = "250" -> 250 [] n = "499" -> 499
          [] n = "500" -> 500 [] n = "999" -> 999 [] n = "1000" -> 1000 [] n = "5000" -> 5000]

\* deep\s*:\s*true from position k on: the position of `true`, else 0
deepTrue(text, k) ==
    LET colon == skipBlanks(text, k + 1)
        value == skipBlanks(text, colon + 1)
    IN IF at(text, k) = "deep" /\ at(text, colon) = ":" /\ at(text, value) = "true"
         THEN value ELSE 0

\* <name>\s*\( and `count` times [^,]+, from position i on, then \s*: the
\* position reached, 0 without a match
callArguments(text, i, name, count) ==
    LET open == skipBlanks(text, i + 1)
        first == indexOf(text, {","}, open + 1)
        second == indexOf(text, {","}, first + 1)
    IN IF at(text, i) # name \/ at(text, open) # "(" \/ first <= open + 1 THEN 0
       ELSE IF count = 1 THEN skipBlanks(text, first + 1)
       ELSE IF second <= first + 1 THEN 0
       ELSE skipBlanks(text, second + 1)

\* \{[^}]*deep\s*:\s*true[^}]*\}\s*\) at position open
deepOptions(text, index, open) ==
    LET block == closedBy(text, braceBlock(text, index, open), ")")
    IN IF open # 0 /\ block # <<>>
            /\ \E k \in DOMAIN block[1].groups[1] : deepTrue(block[1].groups[1], k) # 0
         THEN block ELSE <<>>

\* the regular expressions of the script detectors, each tried at position i
\* of the text: <<>> without a match there, else the match

\* /mutations:\s*{([^}]*)}/g
mutationsOption(text, i) ==
    IF at(text, i) = "mutations" /\ at(text, i + 1) = ":"
      THEN braceBlock(text, i, skipBlanks(text, i + 2)) ELSE <<>>

\* /const\s+mutations\s*=\s*{([^}]*)}/g
constMutationsPattern(text, i) ==
    IF constMutations(text, i) # 0
      THEN braceBlock(text, i, constMutations(text, i)) ELSE <<>>

\* /export\s+const\s+mutations\s*=\s*{([^}]*)}/g
exportConstMutations(text, i) ==
    LET c == skipSomeBlanks(text, i + 1)
    IN IF at(text, i) = "export" /\ c # 0 /\ constMutations(text, c) # 0
         THEN braceBlock(text, i, constMutations(text, c)) ELSE <<>>

\* /props:\s*\[([^\]]*)\]/g
propsArray(text, i) ==
    LET open == skipBlanks(text, i + 2)
        close == indexOf(text, {"]"}, open + 1)
    IN IF at(text, i) = "props" /\ at(text, i + 1) = ":" /\ at(text, open) = "["
            /\ close # 0
         THEN << Match(i, close + 1, << SubSeq(text, open + 1, close - 1) >>) >>
         ELSE <<>>

\* /props:\s*{([^}]*)}/g
propsObject(text, i) ==
    IF at(text, i) = "props" /\ at(text, i + 1) = ":"
      THEN braceBlock(text, i, skipBlanks(text, i + 2)) ELSE <<>>

\* /defineProps\(\s*{([^}]*)}\s*\)/g
defineProps(text, i) ==
    IF at(text, i) = "defineProps" /\ at(text, i + 1) = "("
      THEN closedBy(text, braceBlock(text, i, skipBlanks(text, i + 2)), ")")
      ELSE <<>>

\* /defineProps<[^>]+>\(\s*{([^}]*)}\s*\)/g
definePropsTyped(text, i) ==
    LET close == indexOf(text, {">"}, i + 2)
    IN IF at(text, i) = "defineProps" /\ at(text, i + 1) = "<"
            /\ close > i + 2 /\ at(text, close + 1) = "("
         THEN closedBy(text, braceBlock(text, i, skipBlanks(text, close + 2)), ")")
         ELSE <<>>

\* /(\w+):/g
propName(text, i) ==
    IF wordAt(text, i) /\ at(text, i + 1) = ":"
      THEN << Match(i, i + 2, << text[i] >>) >> ELSE <<>>

\* /['"]([^'"]+)['"]/g
quoted(text, i) ==
    LET close == indexOf(text, quotes, i + 1)
    IN IF at(text, i) \in quotes /\ close > i + 1
         THEN << Match(i, close + 1, << SubSeq(text, i + 1, close - 1) >>) >>
         ELSE <<>>

\* /addEventListener\(\s*['"]([^'"]+)['"]\s*,\s*([^,)]+)/g
addEventListener(text, i) ==
    LET open == skipBlanks(text, i + 2)
        close == indexOf(text, quotes, open + 1)
        comma == skipBlanks(text, close + 1)
        first == skipBlanks(text, comma + 1)
        stop == LET k == indexOf(text, {",", ")"}, first)
                IN IF k = 0 THEN Len(text) + 1 ELSE k
        \* \s* gives its blanks back when nothing else is left for [^,)]+
        start == IF stop > first THEN first ELSE comma + 1
    IN IF at(text, i) = "addEventListener" /\ at(text, i + 1) = "("
            /\ at(text, open) \in quotes /\ close > open + 1
            /\ at(text, comma) = "," /\ stop > start
         THEN << Match(i, stop, << SubSeq(text, open + 1, close - 1),
                                   SubSeq(text, start, stop - 1) >>) >>
         ELSE <<>>

\* /(onUnmounted|onBeforeUnmount)\(\s*\(\)\s*=>\s*{([^}]*)}\s*\)/g
compositionCleanupPattern(text, i) ==
    LET params == skipBlanks(text, i + 2)
        arrow == skipBlanks(text, params + 2)
        block == closedBy(text, braceBlock(text, i, skipBlanks(text, arrow + 2)), ")")
    IN IF at(text, i) \in {"onUnmounted", "onBeforeUnmount"} /\ at(text, i + 1) = "("
            /\ at(text, params) = "(" /\ at(text, params + 1) = ")"
            /\ at(text, arrow) = "=" /\ at(text, arrow + 1) = ">" /\ block # <<>>
         THEN << Match(i, block[1].end, << text[i], block[1].groups[1] >>) >>
         ELSE <<>>

\* /(beforeDestroy|destroyed)\(\)\s*{([^}]*)}/g
optionsCleanupPattern(text, i) ==
    LET block == braceBlock(text, i, skipBlanks(text, i + 3))
    IN IF at(text, i) \in {"beforeDestroy", "destroyed"} /\ at(text, i + 1) = "("
            /\ at(text, i + 2) = ")" /\ block # <<>>
         THEN << Match(i, block[1].end, << text[i], block[1].groups[1] >>) >>
         ELSE <<>>

routerBeforeEach(text, i) ==
    routerGuard(text, i, "beforeEach")

routerBeforeResolve(text, i) ==
    routerGuard(text, i, "beforeResolve")

routerAfterEach(text, i) ==
    routerGuard(text, i, "afterEach")

guardFunctionPattern(text, i) ==
    guardFunction(text, i, guardHooks)

guardArrowPattern(text, i) ==
    guardArrow(text, i, guardHooks)

beforeEachFunction(text, i) ==
    guardFunction(text, i, {"beforeEach"})

beforeEachArrow(text, i) ==
    guardArrow(text, i, {"beforeEach"})

\* /next\s*\(\s*['"`]([^'"`]+)['"`]\s*\)/g
redirectCallPattern(text, i) ==
    LET open == skipBlanks(text, i + 1)
        quote == skipBlanks(text, open + 1)
        close == indexOf(text, quotes, quote + 1)
    IN IF at(text, i) = "next" /\ at(text, open) = "(" /\ at(text, quote) \in quotes
            /\ close > quote + 1
         THEN closedBy(text, << Match(i, close + 1,
                                      << SubSeq(text, quote + 1, close - 1) >>) >>, ")")
         ELSE <<>>

\* /return\s+['"`]([^'"`]+)['"`]/g
returnQuoted(text, i) ==
    LET quote == skipSomeBlanks(text, i + 1)
        close == indexOf(text, quotes, quote + 1)
    IN IF at(text, i) = "return" /\ quote # 0 /\ at(text, quote) \in quotes
            /\ close > quote + 1
         THEN << Match(i, close + 1, << SubSeq(text, quote + 1, close - 1) >>) >>
         ELSE <<>>

\* /(?:async\s+)?(?:function\s+\w+|const\s+\w+\s*=|\w+\s*=)\s*\([^)]*\)
\*   \s*=>\s*\{[\s\S]*?\}|setup\s*\([^)]*\)\s*\{[\s\S]*?\}/g
asyncFunctionPattern(text, i) ==
    LET heads == {i} \cup (IF at(text, i) = "async" /\ skipSomeBlanks(text, i + 1) # 0
                             THEN {skipSomeBlanks(text, i + 1)} ELSE {})
        \* the positions after function <name>, const <name> =, <name> =
        named(j) ==
            LET name == skipSomeBlanks(text, j + 1)
                equals == skipBlanks(text, name + 1)
            IN (IF at(text, j) = "function" /\ name # 0 /\ wordAt(text, name)
                  THEN {name + 1} ELSE {})
               \cup (IF at(text, j) = "const" /\ name # 0 /\ wordAt(text, name)
                          /\ at(text, equals) = "="
                       THEN {equals + 1} ELSE {})
               \cup (IF wordAt(text, j) /\ at(text, skipBlanks(text, j + 1)) = "="
                       THEN {skipBlanks(text, j + 1) + 1} ELSE {})
        arrows == { m \in UNION { { lazyBlock(text, i,
                                        arrowHead(text, skipBlanks(text, after)), "")
                                    : after \in named(j) } : j \in heads } : m # <<>> }
        open == skipBlanks(text, i + 1)
        close == indexOf(text, {")"}, open + 1)
    IN IF arrows # {} THEN CHOOSE m \in arrows : TRUE
       ELSE IF at(text, i) = "setup" /\ at(text, open) = "(" /\ close # 0
         THEN lazyBlock(text, i, skipBlanks(text, close + 1), "")
       ELSE <<>>

\* /\.then\s*\(\s*\([^)]*\)\s*=>\s*\{[\s\S]*?\}\s*\)/g
promiseChainPattern(text, i) ==
    LET open == skipBlanks(text, i + 2)
    IN IF at(text, i) = "." /\ at(text, i + 1) = "then" /\ at(text, open) = "("
         THEN lazyBlock(text, i, arrowHead(text, skipBlanks(text, open + 1)), ")")
         ELSE <<>>

\* /watch\s*\([^,]+,\s*[^,]+,\s*\{[^}]*deep\s*:\s*true[^}]*\}\s*\)/g
deepWatcher(text, i) ==
    deepOptions(text, i, callArguments(text, i, "watch", 2))

\* /watch\s*\([^,]+,\s*[^,]+,\s*\{[\s\S]*?deep\s*:\s*true[\s\S]*?\}\s*\)/g
deepWatcherLazy(text, i) ==
    LET open == callArguments(text, i, "watch", 2)
        deeps == { k \in (open + 1)..Len(text) : deepTrue(text, k) # 0 }
        first == CHOOSE k \in deeps : \A j \in deeps : k <= j
        ends == { k \in (deepTrue(text, first) + 1)..Len(text) :
                    /\ text[k] = "}"
                    /\ at(text, skipBlanks(text, k + 1)) = ")" }
    IN IF open # 0 /\ at(text, open) = "{" /\ deeps # {} /\ ends # {}
         THEN << Match(i, skipBlanks(text, (CHOOSE k \in ends :
                                               \A j \in ends : k <= j) + 1) + 1,
                       <<>>) >>
         ELSE <<>>

\* /watchEffect\s*\([^,]+,\s*\{[^}]*deep\s*:\s*true[^}]*\}\s*\)/g
deepWatchEffect(text, i) ==
    deepOptions(text, i, callArguments(text, i, "watchEffect", 1))

\* /watch\s*\(\s*\w+\s*,\s*[^,]*,\s*\{[^}]*\}\s*\)/g
implicitDeepArray(text, i) ==
    LET open == skipBlanks(text, i + 1)
        source == skipBlanks(text, open + 1)
        first == skipBlanks(text, source + 1)
        second == indexOf(text, {","}, first + 1)
    IN IF at(text, i) = "watch" /\ at(text, open) = "(" /\ wordAt(text, source)
            /\ at(text, first) = "," /\ second # 0
         THEN closedBy(text, braceBlock(text, i, skipBlanks(text, second + 1)), ")")
         ELSE <<>>

\* /watch\s*\(\s*\{[^}]*\}\s*,\s*[^,]*,\s*\{[^}]*\}\s*\)/g
implicitDeepObject(text, i) ==
    LET open == skipBlanks(text, i + 1)
        source == closedBy(text, braceBlock(text, i, skipBlanks(text, open + 1)), ",")
        second == indexOf(text, {","}, source[1].end)
    IN IF at(text, i) = "watch" /\ at(text, open) = "(" /\ source # <<>>
            /\ second # 0
         THEN closedBy(text, braceBlock(text, i, skipBlanks(text, second + 1)), ")")
         ELSE <<>>

\* /watch\s*\(\s*([^,]+),\s*/
watchSource(text, i) ==
    LET open == skipBlanks(text, i + 1)
        first == skipBlanks(text, open + 1)
        comma == indexOf(text, {","}, open + 1)
        start == IF comma > first THEN first ELSE open + 1
    IN IF at(text, i) = "watch" /\ at(text, open) = "(" /\ comma > start
         THEN << Match(i, skipBlanks(text, comma + 1),
                       << SubSeq(text, start, comma - 1) >>) >>
         ELSE <<>>

\* /(?:reactive|ref)\s*\(\s*(\{[^}]*\})/g
reactivePattern(text, i) ==
    LET open == skipBlanks(text, i + 1)
        block == braceBlock(text, i, skipBlanks(text, open + 1))
    IN IF at(text, i) \in {"reactive", "ref"} /\ at(text, open) = "(" /\ block # <<>>
         THEN << Match(i, block[1].end,
                       << <<"{">> \o block[1].groups[1] \o <<"}">> >>) >>
         ELSE <<>>

\* /(?:data|setup)\s*\(\)\s*\{[\s\S]*?return\s*\{([\s\S]*?)\}/g
dataSectionPattern(text, i) ==
    LET open == skipBlanks(text, i + 1)
        body == skipBlanks(text, open + 2)
        returns == { k \in (body + 1)..Len(text) :
                       /\ text[k] = "return"
                       /\ at(text, skipBlanks(text, k + 1)) = "{"
                       /\ indexOf(text, {"}"}, skipBlanks(text, k + 1) + 1) # 0 }
        returned == skipBlanks(text, (CHOOSE k \in returns :
                                         \A j \in returns : k <= j) + 1)
    IN IF at(text, i) \in {"data", "setup"} /\ at(text, open) = "("
            /\ at(text, open + 1) = ")" /\ at(text, body) = "{" /\ returns # {}
         THEN braceBlock(text, i, returned)
         ELSE <<>>

\* /(?:const|let)\s+(\w+)\s*=\s*(?:ref|reactive)\s*\(/g
reactiveDeclaration(text, i) ==
    LET name == skipBlanks(text, i + 1)
        equals == skipBlanks(text, name + 1)
        call == skipBlanks(text, equals + 1)
        open == skipBlanks(text, call + 1)
    IN IF at(text, i) \in {"const", "let"} /\ name > i + 1 /\ wordAt(text, name)
            /\ at(text, equals) = "=" /\ at(text, call) \in {"ref", "reactive"}
            /\ at(text, open) = "("
         THEN << Match(i, open + 1, << text[name] >>) >>
         ELSE <<>>

\* /(\w+)\s*\([^}]*\)\s*{([^}]*)}/g
mutationRegex(text, i) ==
    LET open == skipBlanks(text, i + 1)
        \* [^}]*\) is greedy: the last ')' before any '}' after which
        \* \s*{([^}]*)} matches
        closings == { k \in (open + 1)..Len(text) :
                        /\ text[k] = ")"
                        /\ \A j \in (open + 1)..(k - 1) : text[j] # "}"
                        /\ braceBlock(text, i, skipBlanks(text, k + 1)) # <<>> }
    IN IF wordAt(text, i) /\ at(text, open) = "(" /\ closings # {}
         THEN LET k == CHOOSE k \in closings : \A j \in closings : j <= k
                  body == braceBlock(text, i, skipBlanks(text, k + 1))[1]
              IN << Match(i, body.end, << text[i], body.groups[1] >>) >>
         ELSE <<>>

\* while ((match = pattern.exec(text)) !== null) for a global pattern: the
\* matches from left to right, each search resuming where the last match ended
execAll(pattern(_, _), text, from) ==
    LET exec[i \in from..(Len(text) + 1)] ==
            LET resume(index, match) ==
                    <<match>> \o exec[IF match.end > index THEN match.end ELSE index + 1]
                first(starts) ==
                    IF starts = {} THEN <<>>
                    ELSE LET index == CHOOSE j \in starts : \A k \in starts : j <= k
                         IN resume(index, pattern(text, index)[1])
            IN first({ j \in i..Len(text) : pattern(text, j) # <<>> })
    IN exec[from]

\* the script as text; the patterns modelled on text find nothing in the
\* snippets of the catalogue above
scriptText(c) == IF hasKey(c, "tokens") THEN c.tokens ELSE <<>>

\* match.index in characters (from 0) of a match at position i of the text
charIndex(text, i) ==
    LET RECURSIVE width(_)
        width(n) == IF n = 0 THEN 0 ELSE width(n - 1) + Len(text[n])
    IN width(i - 1)

\* getLineColumnFromIndex(content, index) on a one-line script
getLineColumnFromIndex(index) == [line |-> 1, column |-> index + 1]

\* an issue whose message names `name`
Named(issue, name) ==
    [pattern |-> issue.pattern, severity |-> issue.severity,
     location |-> issue.location, message |-> name]

\* mutation handlers  <name>(state) { <body> }
Handler(name, body) == [name |-> name, body |-> body]

MutationBodies ==
    { <<"fetch", "(", "url", ")">>,                            \* fetch(url)
      <<"await", " ", "load", "(", ")">>,                      \* await load()
      <<"setTimeout", "(", "tick", ",", " ", "10", ")">>,      \* setTimeout(tick, 10)
      <<"state", ".", "n", " ", "=", " ", "1">>,               \* state.n = 1
      <<"state", ".", "items", ".", "push", "(", "item", ")">> }  \* state.items.push(item)

handlerText(handler) ==
    <<handler.name, "(", "state", ")", " ", "{", " ">> \o handler.body \o <<" ", "}">>

RECURSIVE joinTexts(_, _)
joinTexts(texts, separator) ==
    IF texts = <<>> THEN <<>>
    ELSE IF Len(texts) = 1 THEN texts[1]
    ELSE texts[1] \o separator \o joinTexts(Tail(texts), separator)

\* form "option":  export default { mutations: { <handlers> } }
\* form "const":   const mutations = { <handlers> }
\* form "export":  export const mutations = { <handlers> }
MutationsScript(form, handlers) ==
    LET block == <<"{", " ">>
                   \o joinTexts([i \in DOMAIN handlers |-> handlerText(handlers[i])],
                                <<",", " ">>)
                   \o <<" ", "}">>
        declaration == <<"const", " ", "mutations", " ", "=", " ">>
    IN [kind |-> "mutations", form |-> form, handlers |-> handlers,
        tokens |-> CASE form = "option" ->
                          <<"export", " ", "default", " ", "{", " ", "mutations", ":", " ">>
                            \o block \o <<" ", "}">>
                     [] form = "const" -> declaration \o block
                     [] form = "export" -> <<"export", " ">> \o declaration \o block]

MutationsScripts ==
    { MutationsScript(form, <<Handler("load", b)>>) :
        form \in {"option", "const", "export"}, b \in MutationBodies }
    \cup { MutationsScript("const", <<Handler("load", a), Handler("save", b)>>) :
             a \in MutationBodies, b \in MutationBodies }

\* the statements  log(<owner>.<name>)  that use the props `uses`
propUses(owner, uses) ==
    joinTexts([i \in DOMAIN uses |-> <<"log", "(", owner, ".", uses[i], ")">>],
              <<";", " ">>)

\* form "array":    export default { props: ['a', 'b'][, mounted() { <uses> }] }
\* form "object":   export default { props: { a: String, b: Number }[, mounted() { <uses> }] }
\* form "defineProps":       const props = defineProps({ a: String, b: Number })[; <uses>]
\* form "definePropsTyped":  const props = defineProps<T>({ a: String, b: Number })[; <uses>]
\* form "none":     export default { name: 'Card' }
\* `names` are the declared props, `uses` those the script logic reads
PropsScript(form, names, uses) ==
    LET typed == joinTexts([i \in DOMAIN names |->
                               <<names[i], ":", " ",
                                 IF i % 2 = 1 THEN "String" ELSE "Number">>],
                           <<",", " ">>)
        object == IF names = <<>> THEN <<"{", "}">>
                  ELSE <<"{", " ">> \o typed \o <<" ", "}">>
        array == <<"[">>
                   \o joinTexts([i \in DOMAIN names |-> <<"'", names[i], "'">>],
                                <<",", " ">>)
                   \o <<"]">>
        hook == IF uses = <<>> THEN <<>>
                ELSE <<",", " ", "mounted", "(", ")", " ", "{", " ">>
                       \o propUses("this", uses) \o <<" ", "}">>
        statements == IF uses = <<>> THEN <<>>
                      ELSE <<";", " ">> \o propUses("props", uses)
        option(declaration) ==
            <<"export", " ", "default", " ", "{", " ">> \o declaration \o hook
              \o <<" ", "}">>
        setup(call) ==
            <<"const", " ", "props", " ", "=", " ">> \o call \o <<"(">> \o object
              \o <<")">> \o statements
    IN [kind |-> "props", form |-> form, names |-> names, uses |-> uses,
        tokens |->
            CASE form = "array" -> option(<<"props", ":", " ">> \o array)
              [] form = "object" -> option(<<"props", ":", " ">> \o object)
              [] form = "defineProps" -> setup(<<"defineProps">>)
              [] form = "definePropsTyped" -> setup(<<"defineProps", "<", "T", ">">>)
              [] form = "none" -> option(<<"name", ":", " ", "'", "Card", "'">>)]

\* <Child :title="title" :user="user" ... />: @vue/compiler-sfc parses each
\* bound attribute into a directive node (type 7) named bind
PassThrough(passed) ==
    Element("Child",
        [i \in DOMAIN passed |->
            Directive("bind",
                      CASE passed[i] = "title" -> ":title" [] passed[i] = "user" -> ":user"
                        [] passed[i] = "theme" -> ":theme" [] passed[i] = "locale" -> ":locale",
                      Arg(passed[i]), Exp(passed[i]), 8 + 16 * (i - 1))],
        <<>>, 2)

PropsForms == {"array", "object", "defineProps", "definePropsTyped"}

PropNames == <<"title", "user", "theme", "locale">>

PropsScripts ==
    { PropsScript(form, SubSeq(PropNames, 1, n), SubSeq(PropNames, 1, u)) :
        form \in PropsForms, n \in 0..4, u \in 0..1 }
    \cup { PropsScript("none", <<>>, <<>>) }

\* a listener: target window, event and handler names
Listener(event, handler) == [event |-> event, handler |-> handler]

listenerCall(method, listener) ==
    <<"window", ".", method, "(", "'", listener.event, "'", ",", " ",
      listener.handler, ")">>

\* the listeners `added` are registered; the cleanup `hook` releases `removed`:
\*   hook "onUnmounted", "onBeforeUnmount":
\*       <adds>; onUnmounted(() => { <removes> })
\*   hook "beforeDestroy", "destroyed":
\*       export default { mounted() { <adds> }, beforeDestroy() { <removes> } }
\*   hook "outside":  <adds>; <removes>        (released outside any hook)
\*   hook "none":     <adds>
\* with `guarded` the hook body starts with  if (timer) { clearInterval(timer) }
ListenerScript(added, hook, removed, guarded) ==
    LET adds == joinTexts([i \in DOMAIN added |-> listenerCall("addEventListener", added[i])],
                          <<";", " ">>)
        removes == joinTexts([i \in DOMAIN removed |->
                                 listenerCall("removeEventListener", removed[i])],
                             <<";", " ">>)
        guard == IF guarded
                   THEN <<"if", " ", "(", "timer", ")", " ", "{", " ", "clearInterval", "(",
                          "timer", ")", " ", "}", " ">>
                   ELSE <<>>
        body == <<"{", " ">> \o guard \o removes \o <<" ", "}">>
    IN [kind |-> "listeners", added |-> added, hook |-> hook, removed |-> removed,
        guarded |-> guarded,
        tokens |->
            CASE hook \in {"onUnmounted", "onBeforeUnmount"} ->
                   adds \o <<";", " ", hook, "(", "(", ")", " ", "=", ">", " ">> \o body
                     \o <<")">>
              [] hook \in {"beforeDestroy", "destroyed"} ->
                   <<"export", " ", "default", " ", "{", " ", "mounted", "(", ")", " ", "{", " ">>
                     \o adds \o <<" ", "}", ",", " ", hook, "(", ")", " ">> \o body
                     \o <<" ", "}">>
              [] hook = "outside" -> adds \o <<";", " ">> \o removes
              [] hook = "none" -> adds]

CleanupHooks == {"onUnmounted", "onBeforeUnmount", "beforeDestroy", "destroyed"}

ListenerScripts ==
    LET resize == Listener("resize", "onResize")
        scroll == Listener("scroll", "onScroll")
        other == Listener("resize", "onScroll")
    IN { ListenerScript(added, "none", <<>>, FALSE) :
           added \in {<<resize>>, <<resize, scroll>>} }
       \cup { ListenerScript(added, hook, removed, guarded) :
                added \in {<<resize>>, <<resize, scroll>>},
                hook \in CleanupHooks \cup {"outside"},
                removed \in {<<resize>>, <<scroll>>, <<other>>, <<resize, scroll>>},
                guarded \in BOOLEAN }

\* statements of a navigation guard, one for each responsibility category
GuardStatements ==
    << [category |-> "authentication", tokens |-> <<"checkAuth", "(", ")">>],
       [category |-> "permissions", tokens |-> <<"canAccess", "(", "to", ")">>],
       [category |-> "data-fetching", tokens |-> <<"loadData", "(", ")">>],
       [category |-> "analytics", tokens |-> <<"track", "(", "to", ")">>],
       [category |-> "meta-validation", tokens |-> <<"verify", "(", "to", ".", "meta", ")">>],
       [category |-> "loading-states", tokens |-> <<"setLoading", "(", "true", ")">>],
       [category |-> "document-manipulation",
        tokens |-> <<"document", ".", "title", " ", "=", " ", "to", ".", "name">>],
       [category |-> "state-management", tokens |-> <<"dispatch", "(", "to", ")">>],
       [category |-> "error-handling", tokens |-> <<"throw", " ", "failure">>],
       [category |-> "redirection", tokens |-> <<"next", "(", "'", "/", "login", "'", ")">>] >>

\* notify({ path: to.path }), a statement of no category
Notify ==
    [category |-> "none",
     tokens |-> <<"notify", "(", "{", " ", "path", ":", " ", "to", ".", "path", " ", "}", ")">>]

\* step(), a statement of no category
Step == [category |-> "none", tokens |-> <<"step", "(", ")">>]

\* a guard whose body has one statement on each line:
\*   form "routerBeforeEach" (also Resolve, afterEach):
\*       router.beforeEach((to, from, next) => {
\*         <statement>
\*         ...
\*       })
\*   form "guardFunction":  function beforeEach(to, from, next) { ... }
\*   form "guardArrow":     const beforeEach = (to, from, next) => { ... }
GuardText(form, statements) ==
    LET params == <<"(", "to", ",", " ", "from", ",", " ", "next", ")">>
        arrow == params \o <<" ", "=", ">", " ">>
        body == <<"{">>
                  \o Concat([i \in DOMAIN statements |-> <<"\n", " ">> \o statements[i].tokens])
                  \o <<"\n", "}">>
        hook == CASE form = "routerBeforeResolve" -> "beforeResolve"
                  [] form = "routerAfterEach" -> "afterEach"
                  [] OTHER -> "beforeEach"
    IN [kind |-> "guardText", form |-> form, statements |-> statements,
        tokens |->
            CASE form = "guardFunction" -> <<"function", " ", hook>> \o params \o <<" ">> \o body
              [] form = "guardArrow" -> <<"const", " ", hook, " ", "=", " ">> \o arrow \o body
              [] OTHER -> <<"router", ".", hook, "(">> \o arrow \o body \o <<")">>]

GuardForms ==
    {"routerBeforeEach", "routerBeforeResolve", "routerAfterEach", "guardFunction",
     "guardArrow"}

\* guards with `count` responsibilities over `lines` body lines, some of them
\* starting with the statement notify({ ... })
GuardTexts ==
    { GuardText(form,
                (IF notifies THEN <<Notify>> ELSE <<>>)
                  \o SubSeq(GuardStatements, 1, count)
                  \o [i \in 1..(lines - 2 - count - (IF notifies THEN 1 ELSE 0)) |-> Step]) :
        form \in GuardForms, notifies \in BOOLEAN,
        count \in {3, 4, 5, 6, 10}, lines \in {13, 50, 51, 76, 101} }

\* a guard that redirects to /login, written on one line:
\*   router.beforeEach((to, from, next) => { <redirect> })     and the two
\*   other forms, `function beforeEach` and `const beforeEach =`
\* condition "none":       next('/login')
\*           "auth":       if (!isAuthenticated()) next('/login')
\*           "flag":       if (!loggedIn) next('/login')
\*           "or":         loggedIn || next('/login')
\*           "path":       if (to.path !== '/login') next('/login')
\*           "pathTight":  to.path!=='/login' && next('/login')
\*           "name":       if (to.name !== 'login') next('/login')
\*           "returns":    return '/login'
\* with `braced` the redirect of an if is written  { next('/login') } else { next() }
RedirectGuard(form, condition, braced) ==
    LET redirect == <<"next", "(", "'", "/", "login", "'", ")">>
        branch == IF braced
                    THEN <<"{", " ">> \o redirect
                           \o <<" ", "}", " ", "else", " ", "{", " ", "next", "(", ")", " ", "}">>
                    ELSE redirect
        statement ==
            CASE condition = "none" -> redirect
              [] condition = "auth" ->
                   <<"if", " ", "(", "!", "isAuthenticated", "(", ")", ")", " ">> \o branch
              [] condition = "flag" -> <<"if", " ", "(", "!", "loggedIn", ")", " ">> \o branch
              [] condition = "or" -> <<"loggedIn", " ", "|", "|", " ">> \o redirect
              [] condition = "path" ->
                   <<"if", " ", "(", "to", ".", "path", " ", "!", "=", "=", " ",
                     "'", "/", "login", "'", ")", " ">> \o branch
              [] condition = "pathTight" ->
                   <<"to", ".", "path", "!", "=", "=", "'", "/", "login", "'", " ",
                     "&", "&", " ">> \o redirect
              [] condition = "name" ->
                   <<"if", " ", "(", "to", ".", "name", " ", "!", "=", "=", " ",
                     "'", "login", "'", ")", " ">> \o branch
              [] condition = "returns" -> <<"return", " ", "'", "/", "login", "'">>
        params == <<"(", "to", ",", " ", "from", ",", " ", "next", ")">>
        body == <<"{", " ">> \o statement \o <<" ", "}">>
    IN [kind |-> "redirectGuard", form |-> form, condition |-> condition,
        braced |-> braced,
        tokens |->
            CASE form = "guardFunction" ->
                   <<"function", " ", "beforeEach">> \o params \o <<" ">> \o body
              [] form = "guardArrow" ->
                   <<"const", " ", "beforeEach", " ", "=", " ">> \o params
                     \o <<" ", "=", ">", " ">> \o body
              [] OTHER ->
                   <<"router", ".", "beforeEach", "(">> \o params \o <<" ", "=", ">", " ">>
                     \o body \o <<")">>]

RedirectGuards ==
    { RedirectGuard(form, condition, FALSE) :
        form \in {"routerBeforeEach", "guardFunction", "guardArrow"},
        condition \in {"none", "auth", "flag", "or", "path", "pathTight", "name", "returns"} }
    \cup { RedirectGuard(form, condition, TRUE) :
             form \in {"routerBeforeEach", "guardFunction", "guardArrow"},
             condition \in {"auth", "flag", "path", "name"} }

\* <li v-for="n in <size>" :key="n"></li>
RangeList(size) ==
    Element("li", << VFor("n", "", <<size>>, 7), BindKey("n", 26) >>, <<>>, 2)

\* a function that awaits and reads a store:
\*   form "declaration":  async function load() { <body> }
\*   form "arrow":        const load = async () => { <body> }
\*   form "setup":        export default { async setup() { <body> } }
\* order "after":    await fetchUser(); const store = useStore()
\*       "before":   const store = useStore(); await fetchUser()
\*       "noStore":  await fetchUser()
\*       "noAwait":  const store = useStore()
AsyncFunction(form, order) ==
    LET awaits == <<"await", " ", "fetchUser", "(", ")">>
        reads == <<"const", " ", "store", " ", "=", " ", "useStore", "(", ")">>
        body == <<"{", " ">>
                  \o (CASE order = "after" -> awaits \o <<";", " ">> \o reads
                        [] order = "before" -> reads \o <<";", " ">> \o awaits
                        [] order = "noStore" -> awaits
                        [] order = "noAwait" -> reads)
                  \o <<" ", "}">>
    IN [kind |-> "asyncFunction", form |-> form, order |-> order,
        tokens |->
            CASE form = "declaration" ->
                   <<"async", " ", "function", " ", "load", "(", ")", " ">> \o body
              [] form = "arrow" ->
                   <<"const", " ", "load", " ", "=", " ", "async", " ", "(", ")", " ",
                     "=", ">", " ">> \o body
              [] form = "setup" ->
                   <<"export", " ", "default", " ", "{", " ", "async", " ", "setup", "(", ")",
                     " ">> \o body \o <<" ", "}">>]

AsyncFunctions ==
    { AsyncFunction(form, order) :
        form \in {"declaration", "arrow", "setup"},
        order \in {"after", "before", "noStore", "noAwait"} }

\* [const form = reactive({ a: 1, b: 2 }); ]watch(<source>, <callback>, { <options> })
\* callback "named":  onChange          "arrow":  () => save()
\* options  "deep":           deep: true
\*          "deepImmediate":  deep: true, immediate: true
\*          "immediate":      immediate: true
\*          "flush":          flush: 'post'
WatchScript(declared, source, callback, options) ==
    LET declaration ==
            IF declared
              THEN <<"const", " ", source, " ", "=", " ", "reactive", "(", "{", " ", "a", ":",
                     " ", "1", ",", " ", "b", ":", " ", "2", " ", "}", ")", ";", " ">>
              ELSE <<>>
        handler == IF callback = "named" THEN <<"onChange">>
                   ELSE <<"(", ")", " ", "=", ">", " ", "save", "(", ")">>
        deep == <<"deep", ":", " ", "true">>
        immediate == <<"immediate", ":", " ", "true">>
        settings == CASE options = "deep" -> deep
                      [] options = "deepImmediate" -> deep \o <<",", " ">> \o immediate
                      [] options = "immediate" -> immediate
                      [] options = "flush" -> <<"flush", ":", " ", "'", "post", "'">>
    IN [kind |-> "watch", declared |-> declared, source |-> source,
        callback |-> callback, options |-> options,
        tokens |-> declaration \o <<"watch", "(", source, ",", " ">> \o handler
                     \o <<",", " ", "{", " ">> \o settings \o <<" ", "}", ")">>]

WatchScripts ==
    { WatchScript(declared, source, callback, options) :
        declared \in BOOLEAN, source \in {"form", "items"},
        callback \in {"named", "arrow"},
        options \in {"deep", "deepImmediate", "immediate", "flush"} }

\* const <name> = ref(null); ... one declaration per name, in the order given,
\* followed by provide('state', <first name>) when the state is shared
DeclarationsScript(names, shared) ==
    LET declaration(name) == <<"const", " ", name, " ", "=", " ", "ref", "(", "null", ")">>
        separated(k) == IF k = 1 THEN declaration(names[k])
                        ELSE <<";", " ">> \o declaration(names[k])
    IN [kind |-> "declarations", names |-> names, shared |-> shared,
        tokens |-> Concat([k \in DOMAIN names |-> separated(k)])
                     \o IF shared
                          THEN <<";", " ", "provide", "(", "'", "state", "'", ",", " ",
                                 names[1], ")">>
                          ELSE <<>>]

\* data() { return { <name>: null } }
DataSection(name) ==
    [kind |-> "dataSection", name |-> name,
     tokens |-> <<"data", "(", ")", " ", "{", " ", "return", " ", "{", " ", name, ":", " ",
                  "null", " ", "}", " ", "}">>]

\* user and session are authentication names, theme is a preference, count
\* is no global state name
StateNames == {"user", "session", "theme", "count"}

DeclarationsScripts ==
    { DeclarationsScript(names, shared) :
        names \in { order \in UNION { [1..n -> StateNames] : n \in 1..3 } :
                      \A i, j \in DOMAIN order : i # j => order[i] # order[j] },
        shared \in BOOLEAN }
    \cup { DataSection(name) : name \in StateNames }

\* ------------------------------------------------------------------------
\* Script detectors.  Each one starts with `if (!script || !script.content)
\* return issues`; ScriptIssues supplies that guard, and `found` is what the
\* detector's patterns find in the snippet c.
\* ------------------------------------------------------------------------
ScriptIssues(sfc, found(_)) ==
    IF ~hasScriptContent(sfc) THEN Returns(<<>>)
    ELSE Returns(found(sfc.descriptor.script.content))

\* Array.from(new Set(values)): the values in the order of their first occurrence
RECURSIVE arrayFromSet(_)
arrayFromSet(values) ==
    IF values = <<>> THEN <<>>
    ELSE LET front == arrayFromSet(SubSeq(values, 1, Len(values) - 1))
             value == values[Len(values)]
         IN IF value \in Range(front) THEN front ELSE Append(front, value)

\* the branch of extractPropsDefinition a pattern takes:
\* pattern.source.includes('defineProps') || pattern.source.includes('Object')
readsObjectFormat(pattern) == pattern \in {"defineProps", "definePropsTyped"}

\* the names are single words in every text analysed here
extractPropsDefinition(c) ==
    IF c.kind = "propsArray" THEN <<"title">>             \* props: ['title']
    ELSE LET scriptContent == scriptText(c)
             objectNames(propMatches) ==
                 [i \in DOMAIN propMatches |-> propMatches[i].groups[1]]
             arrayNames(propMatches) ==
                 [i \in DOMAIN propMatches |-> propMatches[i].groups[1][1]]
             namesIn(source, propsContent) ==
                 IF readsObjectFormat(source)
                   THEN objectNames(execAll(propName, propsContent, 1))
                   ELSE arrayNames(execAll(quoted, propsContent, 1))
             names(source, matches) ==
                 Concat([i \in DOMAIN matches |-> namesIn(source, matches[i].groups[1])])
             found(pattern(_, _), source) ==
                 names(source, execAll(pattern, scriptContent, 1))
         IN arrayFromSet(found(propsArray, "propsArray") \o found(propsObject, "propsObject")
                           \o found(defineProps, "defineProps")
                           \o found(definePropsTyped, "definePropsTyped"))

\* the attribute names that start with ':'
colonNames == {":title", ":user", ":theme", ":locale"}

\* extractTemplatePropUsage: the values of the attribute nodes (type 6) whose
\* name starts with ':' (the values of the templates analysed here hold no
\* '$' and no quote)
extractTemplatePropUsage(sfc) ==
    LET values(nodes) ==
            UNION { { nodes[i].props[j].value.content :
                        j \in { k \in DOMAIN nodes[i].props :
                                  /\ nodes[i].props[k].type = 6
                                  /\ nodes[i].props[k].name \in colonNames } } :
                    i \in { i \in DOMAIN nodes : nodes[i].type = 1 } }
    IN IF ~hasTemplate(sfc) THEN {}
       ELSE values(traverseTemplate(sfc.descriptor.template.ast))

\* extractScriptPropUsage: new RegExp(`\\b${prop}\\b`, 'g').test(scriptContent);
\* a prop of the snippet props: ['title'] is found in its own declaration
extractScriptPropUsage(c, props) ==
    IF c.kind = "propsArray" THEN Range(props)
    ELSE { prop \in Range(props) : prop \in Range(scriptText(c)) }

detectPropDrilling(this, sfc, filePath) ==
    IF ~hasScriptContent(sfc) THEN Returns(<<>>)
    ELSE LET issues(propsDefinition, passedThrough, passThroughCount) ==
                 Concat([i \in DOMAIN propsDefinition |->
                     IF propsDefinition[i] \in passedThrough /\ passThroughCount >= 2
                       THEN << Issue("PROP_DRILLING",
                                     IF passThroughCount >= 4 THEN "HIGH" ELSE "MEDIUM",
                                     1, 1) >>
                       ELSE <<>>])
             counted(propsDefinition, passedThrough) ==
                 issues(propsDefinition, passedThrough, Cardinality(passedThrough))
             drilled(propsDefinition, templatePropUsage, scriptPropUsage) ==
                 counted(propsDefinition,
                         { q \in Range(propsDefinition) :
                             q \notin scriptPropUsage /\ q \in templatePropUsage })
             analysed(c, propsDefinition) ==
                 drilled(propsDefinition, extractTemplatePropUsage(sfc),
                         extractScriptPropUsage(c, propsDefinition))
         IN Returns(analysed(sfc.descriptor.script.content,
                             extractPropsDefinition(sfc.descriptor.script.content)))

\* faulty variant: a detector that files its findings under another identifier
detectTightCouplingMislabelled(this, sfc, filePath) ==
    ScriptIssues(sfc, LAMBDA c :
        IF c.kind = "parentCall"
          THEN << Issue("PROP_DRILLING", "CRITICAL", 1, 6) >>
          ELSE <<>>)

detectTightCoupling(this, sfc, filePath) ==
    ScriptIssues(sfc, LAMBDA c :
        IF c.kind = "parentCall"
          THEN << Issue("TIGHT_COUPLING", "CRITICAL", 1, 6),      \* $parent access
                  Issue("TIGHT_COUPLING", "HIGH", 1, 1) >>        \* this.$parent.method()
          ELSE <<>>)

detectRefReactiveConfusion(this, sfc, filePath) ==
    ScriptIssues(sfc, LAMBDA c :
        CASE c.kind = "reactivePrimitive" ->
               << Issue("REF_REACTIVE_CONFUSION", "HIGH", 1, 15) >>
          [] c.kind = "reactiveDestructure" ->
               << Issue("REF_REACTIVE_CONFUSION", "CRITICAL", 1, 1) >>
          [] OTHER -> <<>>)

detectDestructuringReactivityLoss(this, sfc, filePath) ==
    ScriptIssues(sfc, LAMBDA c :
        IF c.kind = "reactiveDestructure"
          THEN << Issue("DESTRUCTURING_REACTIVITY_LOSS", "CRITICAL", 1, 1) >>
          ELSE <<>>)

\* analyzeComputedSideEffects: mutations of this.* are CRITICAL, console /
\* network / DOM calls HIGH
analyzeComputedSideEffects(body) ==
    CASE body = "this.count++" -> <<"CRITICAL">>
      [] body = "console.log(1)" -> <<"HIGH">>
      [] OTHER -> <<>>

detectComputedSideEffects(this, sfc, filePath) ==
    ScriptIssues(sfc, LAMBDA c :
        IF c.kind = "computedArrow"
          THEN LET effects == analyzeComputedSideEffects(c.body)
               IN [i \in DOMAIN effects |->
                      Issue("COMPUTED_SIDE_EFFECTS", effects[i], 1, 15)]
          ELSE <<>>)

\* (value.match(/,/g) || []).length + 1
countItems(value) == Cardinality({ i \in DOMAIN value : value[i] = "," }) + 1

\* estimateWatchedObjectSize; an identifier is one word that is no numeral
estimateWatchedObjectSize(source, scriptContent) ==
    LET unwrapped(text) ==
            SubSeq(text, IF text # <<>> /\ Head(text) = "(" THEN 2 ELSE 1, Len(text))
        closed(text) ==
            SubSeq(text, 1, IF text # <<>> /\ text[Len(text)] = ")"
                              THEN Len(text) - 1 ELSE Len(text))
        \* the value of <name>\s*=\s*(\{[^}]*\}|\[[^\]]*\]) at position i, else <<>>
        literal(value, close) ==
            IF close = 0 THEN <<>> ELSE SubSeq(scriptContent, value, close)
        valueAt(value) ==
            IF at(scriptContent, value) = "{"
              THEN literal(value, indexOf(scriptContent, {"}"}, value + 1))
            ELSE IF at(scriptContent, value) = "["
              THEN literal(value, indexOf(scriptContent, {"]"}, value + 1))
            ELSE <<>>
        assignedAt(name, i) ==
            IF scriptContent[i] = name
                 /\ at(scriptContent, skipBlanks(scriptContent, i + 1)) = "="
              THEN valueAt(skipBlanks(scriptContent,
                                      skipBlanks(scriptContent, i + 1) + 1))
              ELSE <<>>
        firstAssigned(name, assigned) ==
            IF assigned = {} THEN 25
            ELSE countItems(assignedAt(name, CHOOSE i \in assigned :
                                                 \A j \in assigned : i <= j))
        named(name, declared) ==
            IF declared # <<>> THEN countItems(declared[1].groups[1])
            ELSE firstAssigned(name, { i \in DOMAIN scriptContent :
                                         assignedAt(name, i) # <<>> })
        estimate(cleanSource) ==
            IF Len(cleanSource) = 1 /\ isWord(cleanSource[1])
                 /\ cleanSource[1] \notin DOMAIN numerals
              THEN named(cleanSource[1], execAll(reactivePattern, scriptContent, 1))
            ELSE IF cleanSource # <<>>
                    /\ \/ Head(cleanSource) = "{" /\ cleanSource[Len(cleanSource)] = "}"
                       \/ Head(cleanSource) = "[" /\ cleanSource[Len(cleanSource)] = "]"
              THEN countItems(cleanSource)
            ELSE 10
    IN estimate(trim(closed(unwrapped(source))))

\* the snippet watch(obj, onChange, { deep: true }) is matched by the two
\* deep-option patterns and by the implicit-deep pattern; the texts analysed
\* are written on one line
detectDeepWatcherOveruse(this, sfc, filePath) ==
    ScriptIssues(sfc, LAMBDA c :
        IF c.kind = "watchDeep"
          THEN << Issue("DEEP_WATCHER_OVERUSE", "MEDIUM", 1, 1),
                  Issue("DEEP_WATCHER_OVERUSE", "MEDIUM", 1, 1),
                  Issue("DEEP_WATCHER_OVERUSE", "LOW", 1, 1) >>
        ELSE
        LET scriptContent == scriptText(c)
            fullMatch(match) == SubSeq(scriptContent, match.index, match.end - 1)
            \* fullMatch.match(/watch\s*\(\s*([^,]+),\s*/)
            first(matches) == IF matches = <<>> THEN <<>> ELSE << matches[1] >>
            sourceMatch(match) == first(execAll(watchSource, fullMatch(match), 1))
            issueAt(severity, location) ==
                << Issue("DEEP_WATCHER_OVERUSE", severity, location.line, location.column) >>
            location(match) == getLineColumnFromIndex(charIndex(scriptContent, match.index))
            severityOf(estimatedSize) ==
                IF estimatedSize > 50 THEN "HIGH"
                ELSE IF estimatedSize > 20 THEN "MEDIUM" ELSE "LOW"
            deepIssue(match, found) ==
                IF found = <<>> THEN <<>>
                ELSE issueAt(severityOf(estimateWatchedObjectSize(trim(found[1].groups[1]),
                                                                  scriptContent)),
                             location(match))
            watchable(source) ==
                \/ "[" \in Range(source) \/ "{" \in Range(source)
                \/ Len(source) = 1 /\ isWord(source[1]) /\ source[1] \notin DOMAIN numerals
            implicitIssue(match, text, found) ==
                IF /\ ~Includes(text, <<"immediate", ":", " ", "true">>)
                   /\ ~Includes(text, <<"immediate", ":", "true">>)
                   /\ found # <<>>
                   /\ watchable(trim(found[1].groups[1]))
                  THEN issueAt("LOW", location(match))
                  ELSE <<>>
            deepIssues(deep) ==
                Concat([m \in DOMAIN deep |-> deepIssue(deep[m], sourceMatch(deep[m]))])
            implicitIssues(implicit) ==
                Concat([m \in DOMAIN implicit |->
                           implicitIssue(implicit[m], fullMatch(implicit[m]),
                                         sourceMatch(implicit[m]))])
        IN deepIssues(execAll(deepWatcher, scriptContent, 1)
                        \o execAll(deepWatcherLazy, scriptContent, 1)
                        \o execAll(deepWatchEffect, scriptContent, 1))
           \o implicitIssues(execAll(implicitDeepArray, scriptContent, 1)
                               \o execAll(implicitDeepObject, scriptContent, 1)))

\* `match[1] || match[2]`: the captured body, or undefined when the body is
\* the empty string (the pattern has one group)
watcherBodyIsUndefined(c) == c.body = ""

\* analyzeWatcherBody(body) for the bodies of the catalogue
analyzeWatcherBody(body) ==
    CASE body = "total.value = a.value + b.value" ->
           \* counted by the .value pattern and by the obj.prop pattern
           [isPure |-> TRUE, onlyAssignsToState |-> TRUE, totalAssignments |-> 2]
      [] body = "form.total = 1" ->
           [isPure |-> TRUE, onlyAssignsToState |-> TRUE, totalAssignments |-> 1]
      [] OTHER ->      \* console.log(v): a side effect and no assignment
           [isPure |-> FALSE, onlyAssignsToState |-> FALSE, totalAssignments |-> 0]

\* analyzeWatcherBody(undefined) calls undefined.replace
detectWatcherShouldBeComputed(this, sfc, filePath) ==
    IF ~hasScriptContent(sfc) THEN Returns(<<>>)
    ELSE LET c == sfc.descriptor.script.content
         IN IF c.kind # "watchFn" THEN Returns(<<>>)
            ELSE IF watcherBodyIsUndefined(c) THEN Throws
            ELSE LET analysis == analyzeWatcherBody(c.body)
                     severity == IF analysis.totalAssignments > 1
                                   THEN "HIGH" ELSE "MEDIUM"
                 IN IF analysis.isPure /\ analysis.onlyAssignsToState
                         /\ analysis.totalAssignments > 0
                      THEN Returns(<< Issue("WATCHER_SHOULD_BE_COMPUTED", severity, 1, 1) >>)
                      ELSE Returns(<<>>)

\* /(\w+)\s*\([^}]*\)\s*{([^}]*)}/g with the asyncPatterns tested on match[2]:
\* \b<word>\b is a token of the body, \$\.ajax\b the tokens $ . ajax
analyzeMutationsForAsync(mutationsBlock) ==
    LET asyncWords == {"async", "await", "Promise", "setTimeout", "setInterval", "fetch",
                       "axios", "XMLHttpRequest", "then", "catch", "finally"}
        hasAsync(mutationBody) ==
            \/ \E i \in DOMAIN mutationBody : mutationBody[i] \in asyncWords
            \/ Includes(mutationBody, <<"$", ".", "ajax">>)
        mutations(matches) ==
            [i \in DOMAIN matches |->
                [name |-> matches[i].groups[1], body |-> matches[i].groups[2],
                 index |-> matches[i].index]]
    IN SelectSeq(mutations(execAll(mutationRegex, mutationsBlock, 1)),
                 LAMBDA mutation : hasAsync(mutation.body))

detectVuexAsyncInMutation(this, sfc, filePath) ==
    ScriptIssues(sfc, LAMBDA c :
        LET scriptContent == scriptText(c)
            issueAt(location, name) ==
                Named(Issue("VUEX_ASYNC_IN_MUTATION", "CRITICAL",
                            location.line, location.column),
                      name)
            blockIssues(block, asyncMutations) ==
                [i \in DOMAIN asyncMutations |->
                    issueAt(getLineColumnFromIndex(
                                charIndex(scriptContent, block.index)
                                + charIndex(block.groups[1], asyncMutations[i].index)),
                            asyncMutations[i].name)]
            issues(blocks) ==
                Concat([b \in DOMAIN blocks |->
                           blockIssues(blocks[b],
                                       analyzeMutationsForAsync(blocks[b].groups[1]))])
        IN issues(execAll(mutationsOption, scriptContent, 1)
                    \o execAll(constMutationsPattern, scriptContent, 1)
                    \o execAll(exportConstMutations, scriptContent, 1)))

getVuexThreshold(type, count) ==
    LET thresholds ==
            [ state |-> [LOW |-> 10, MEDIUM |-> 20, HIGH |-> 40, CRITICAL |-> 50],
              mutations |-> [LOW |-> 10, MEDIUM |-> 20, HIGH |-> 35, CRITICAL |-> 50],
              actions |-> [LOW |-> 8, MEDIUM |-> 15, HIGH |-> 25, CRITICAL |-> 40],
              getters |-> [LOW |-> 10, MEDIUM |-> 20, HIGH |-> 35, CRITICAL |-> 50] ]
    IN IF type \notin DOMAIN thresholds THEN [level |-> "OK"]
       ELSE IF count > thresholds[type].CRITICAL THEN [level |-> "CRITICAL"]
       ELSE IF count > thresholds[type].HIGH THEN [level |-> "HIGH"]
       ELSE IF count > thresholds[type].MEDIUM THEN [level |-> "MEDIUM"]
       ELSE IF count > thresholds[type].LOW THEN [level |-> "LOW"]
       ELSE [level |-> "OK"]

getVuexLocThreshold(lines) ==
    IF lines > 1000 THEN [level |-> "CRITICAL"]
    ELSE IF lines > 700 THEN [level |-> "HIGH"]
    ELSE IF lines > 400 THEN [level |-> "MEDIUM"]
    ELSE IF lines > 200 THEN [level |-> "LOW"]
    ELSE [level |-> "OK"]

\* analyzeVuexStore(storeBlock): commas + 1 in the state block, `name(` per
\* entry in the other blocks, lines of the block
analyzeVuexStore(c) ==
    [stateCount |-> c.stateCount, mutationsCount |-> c.mutationsCount,
     actionsCount |-> c.actionsCount, gettersCount |-> c.gettersCount,
     totalLines |-> c.totalLines]

\* one issue per category whose level is not 'OK', at the createStore( call
detectVuexGodStore(this, sfc, filePath) ==
    ScriptIssues(sfc, LAMBDA c :
        IF c.kind # "store" THEN <<>>
        ELSE LET analysis == analyzeVuexStore(c)
                 levels == << getVuexThreshold("state", analysis.stateCount).level,
                              getVuexThreshold("mutations", analysis.mutationsCount).level,
                              getVuexThreshold("actions", analysis.actionsCount).level,
                              getVuexThreshold("getters", analysis.gettersCount).level,
                              getVuexLocThreshold(analysis.totalLines).level >>
             IN Concat([i \in DOMAIN levels |->
                    IF levels[i] # "OK"
                      THEN << Issue("VUEX_GOD_STORE", levels[i], 1, 15) >>
                      ELSE <<>>]))

detectPiniaCircularDependency(this, sfc, filePath) ==
    ScriptIssues(sfc, LAMBDA c :
        CASE c.kind = "piniaCircular" ->      \* each getter reads the other store
               << Issue("PINIA_CIRCULAR_DEPENDENCY", "CRITICAL", 1, 21),
                  Issue("PINIA_CIRCULAR_DEPENDENCY", "CRITICAL", 2, 21) >>
          [] c.kind = "useStores" ->          \* several stores used side by side
               << Issue("PINIA_CIRCULAR_DEPENDENCY", "MEDIUM", 1, 11) >>
          [] OTHER -> <<>>)

\* \bawait\b and \buseStore\b are tokens; the texts analysed are written on
\* one line
detectPiniaUseStoreAfterAwait(this, sfc, filePath) ==
    ScriptIssues(sfc, LAMBDA c :
        IF c.kind = "setupAwait"  \* async setup() { await load(); const s = useStore() }
          THEN << Issue("PINIA_USESTORE_AFTER_AWAIT", "CRITICAL", 1, 7) >>
        ELSE
        LET scriptContent == scriptText(c)
            text(match) == SubSeq(scriptContent, match.index, match.end - 1)
            issueAt(severity, location) ==
                << Issue("PINIA_USESTORE_AFTER_AWAIT", severity,
                         location.line, location.column) >>
            location(match) == getLineColumnFromIndex(charIndex(scriptContent, match.index))
            hasUseStoreAfterAwait(functionBody) ==
                \E awaitPos \in DOMAIN functionBody, useStorePos \in DOMAIN functionBody :
                    /\ functionBody[awaitPos] = "await"
                    /\ functionBody[useStorePos] = "useStore"
                    /\ useStorePos > awaitPos
            inFunctions(functions) ==
                Concat([m \in DOMAIN functions |->
                    IF hasUseStoreAfterAwait(text(functions[m]))
                      THEN issueAt("CRITICAL", location(functions[m]))
                      ELSE <<>>])
            inChains(chains) ==
                Concat([m \in DOMAIN chains |->
                    IF "useStore" \in Range(text(chains[m]))
                      THEN issueAt("HIGH", location(chains[m]))
                      ELSE <<>>])
        IN inFunctions(execAll(asyncFunctionPattern, scriptContent, 1))
           \o inChains(execAll(promiseChainPattern, scriptContent, 1)))

\* String.prototype.indexOf(sub) as a position, 0 when sub does not occur
firstOccurrence(text, sub) ==
    LET found == { i \in 1..(Len(text) - Len(sub) + 1) : SubSeq(text, i, i + Len(sub) - 1) = sub }
    IN IF found = {} THEN 0 ELSE CHOOSE i \in found : \A j \in found : i <= j

\* the alternatives of the five regular expressions /\b(...)\b/g, which one
\* array shares between the two loops and between the declarations
globalStatePatterns ==
    << [pattern |-> {"isAuthenticated", "isLoggedIn", "user", "currentUser", "authToken",
                     "session"},
        type |-> "authentication"],
       [pattern |-> {"theme", "darkMode", "lightMode", "colorScheme", "language", "locale",
                     "preferences"},
        type |-> "preferences"],
       [pattern |-> {"isLoading", "loading", "globalLoading", "appState", "sidebarOpen",
                     "menuOpen"},
        type |-> "app-state"],
       [pattern |-> {"settings", "config", "configuration", "userSettings", "appConfig"},
        type |-> "settings"],
       [pattern |-> {"cache", "cachedData", "apiCache", "dataCache"},
        type |-> "cache"] >>

\* RegExp.prototype.test of a global expression /\b(...)\b/g on a variable
\* name: the search starts at lastIndex.  A name is one run of word
\* characters, so its only word boundaries are its two ends and the
\* expression matches at index 0 or nowhere; a match leaves lastIndex behind
\* the name, a failure resets it to 0.
test(pattern, lastIndex, varName) ==
    LET found == lastIndex = 0 /\ varName \in pattern
    IN [found |-> found, lastIndex |-> IF found THEN Len(varName) ELSE 0]

\* reactiveDeclarations.forEach(decl => globalStatePatterns.forEach(...)): the
\* <<declaration, pattern>> pairs of which the test succeeds, lastIndex[k]
\* being the lastIndex of globalStatePatterns[k].pattern
RECURSIVE testDeclarations(_, _)
testDeclarations(reactiveDeclarations, lastIndex) ==
    IF reactiveDeclarations = <<>> THEN <<>>
    ELSE LET decl == Head(reactiveDeclarations)
             tested == [k \in DOMAIN globalStatePatterns |->
                           test(globalStatePatterns[k].pattern, lastIndex[k],
                                decl.groups[1])]
         IN Concat([k \in DOMAIN globalStatePatterns |->
                       IF tested[k].found
                         THEN << [decl |-> decl, type |-> globalStatePatterns[k].type] >>
                         ELSE <<>>])
            \o testDeclarations(Tail(reactiveDeclarations),
                                [k \in DOMAIN globalStatePatterns |-> tested[k].lastIndex])

\* the snippets data() { return { user: null } } and const theme = ref(...)
\* hold a global state name each
detectStateLocalizationAntipattern(this, sfc, filePath) ==
    ScriptIssues(sfc, LAMBDA c :
        CASE c.kind = "dataReturn" ->         \* user: in data()
               << Issue("STATE_LOCALIZATION_ANTIPATTERN", "HIGH", 1, 1) >>
          [] c.kind = "refDecl" /\ c.name = "theme" ->
               << Issue("STATE_LOCALIZATION_ANTIPATTERN", "MEDIUM", 1, 1) >>
          [] OTHER ->
        LET scriptContent == scriptText(c)
            text(match) == SubSeq(scriptContent, match.index, match.end - 1)
            issueAt(severity, location, name) ==
                << Named(Issue("STATE_LOCALIZATION_ANTIPATTERN", severity,
                               location.line, location.column),
                         name) >>
            location(index) == getLineColumnFromIndex(charIndex(scriptContent, index))
            \* dataProperties.match(pattern) starts at index 0 whatever lastIndex is
            sectionIssue(match, stateMatches) ==
                IF /\ stateMatches # <<>>
                   /\ ~Includes(scriptContent, <<"provide", "(">>)
                   /\ ~Includes(scriptContent, <<"provide", ",">>)
                  THEN issueAt("HIGH", location(match.index), stateMatches[1])
                  ELSE <<>>
            inSections(sections) ==
                Concat([m \in DOMAIN sections |->
                    Concat([k \in DOMAIN globalStatePatterns |->
                        sectionIssue(sections[m],
                                     SelectSeq(sections[m].groups[1],
                                               LAMBDA token :
                                                   token \in globalStatePatterns[k].pattern))])])
            isInStore == "defineStore" \in Range(scriptContent)
                           \/ "createStore" \in Range(scriptContent)
            inDeclarations(tests) ==
                Concat([m \in DOMAIN tests |->
                    IF ~isInStore /\ "provide" \notin Range(scriptContent)
                      THEN issueAt("MEDIUM",
                                   location(firstOccurrence(scriptContent,
                                                            text(tests[m].decl))),
                                   tests[m].decl.groups[1])
                      ELSE <<>>])
        IN inSections(execAll(dataSectionPattern, scriptContent, 1))
           \o inDeclarations(
                  testDeclarations(execAll(reactiveDeclaration, scriptContent, 1),
                                   [k \in DOMAIN globalStatePatterns |-> 0])))

detectUntypedProvideInject(this, sfc, filePath) ==
    ScriptIssues(sfc, LAMBDA c :
        IF c.kind = "provideString"
          THEN << Issue("UNTYPED_PROVIDE_INJECT", "HIGH", 1, 1),     \* string key
                  Issue("UNTYPED_PROVIDE_INJECT", "MEDIUM", 1, 1) >> \* no InjectionKey
          ELSE <<>>)

\* hasRouteCheckBeforeRedirect.  The first four expressions are built from
\* template literals, in which \. is `.` and \s is the letter s: they read
\* to.paths*!==?s*['"]<path>['"] and so on, `.` being any one character, and
\* match a comparison written without blanks only.
hasRouteCheckBeforeRedirect(guardBody, redirectPath, redirectCall) ==
    LET beforeRedirect == SubSeq(guardBody, 1, firstOccurrence(guardBody, redirectCall) - 1)
        anyCharacter(token) == token \notin {"", "\n"} /\ ~isWord(token)
        \* <subject>.<property><operator>=?['"]<path>['"]
        compares(subject, property, operator, path) ==
            \E i \in DOMAIN beforeRedirect :
                LET quote == IF at(beforeRedirect, i + 5) = "=" THEN i + 6 ELSE i + 5
                IN /\ beforeRedirect[i] = subject
                   /\ anyCharacter(at(beforeRedirect, i + 1))
                   /\ at(beforeRedirect, i + 2) = property
                   /\ at(beforeRedirect, i + 3) = operator /\ at(beforeRedirect, i + 4) = "="
                   /\ at(beforeRedirect, quote) \in {"'", "\""}
                   /\ SubSeq(beforeRedirect, quote + 1, quote + Len(path)) = path
                   /\ at(beforeRedirect, quote + Len(path) + 1) \in {"'", "\""}
    IN \/ compares("to", "path", "!", redirectPath)
       \/ compares("to", "path", "!", <<"/">> \o redirectPath)
       \/ compares("from", "path", "=", redirectPath)
       \/ compares("to", "name", "!", redirectPath)
       \/ \E i \in DOMAIN beforeRedirect :                       \* to.meta.requiresAuth
              /\ beforeRedirect[i] = "to" /\ anyCharacter(at(beforeRedirect, i + 1))
              /\ at(beforeRedirect, i + 2) = "meta"
              /\ anyCharacter(at(beforeRedirect, i + 3))
              /\ at(beforeRedirect, i + 4) = "requiresAuth"
       \/ "isAuthenticated" \in Range(beforeRedirect)                \* isAuthenticated
       \/ \E i \in DOMAIN beforeRedirect :                                \* \bif\s*\(
              /\ beforeRedirect[i] = "if"
              /\ at(beforeRedirect, skipBlanks(beforeRedirect, i + 1)) = "("

\* a guard of the snippet catalogue has nothing but its header before the
\* redirect; the texts analysed are written on one line
detectInfiniteNavigationLoop(this, sfc, filePath) ==
    ScriptIssues(sfc, LAMBDA c :
        IF c.kind = "guard"
          THEN IF c.redirect
                 THEN << Issue("INFINITE_NAVIGATION_LOOP", "CRITICAL", 1, 41) >>
                 ELSE <<>>
        ELSE
        LET scriptContent == scriptText(c)
            text(guardBody, redirect) == SubSeq(guardBody, redirect.index, redirect.end - 1)
            issueAt(location, redirectPath) ==
                << Named(Issue("INFINITE_NAVIGATION_LOOP", "CRITICAL",
                               location.line, location.column),
                         redirectPath) >>
            found(match, guardBody, redirects, conditioned(_)) ==
                Concat([r \in DOMAIN redirects |->
                       IF ~conditioned(redirects[r])
                         THEN issueAt(getLineColumnFromIndex(
                                          charIndex(scriptContent, match.index)
                                          + charIndex(guardBody,
                                                firstOccurrence(guardBody,
                                                    text(guardBody, redirects[r])))),
                                      redirects[r].groups[1])
                         ELSE <<>>])
            \* /\bif\s*\(|\?|\||&|\.path|\.name|\.meta/.test(beforeReturn)
            tested(beforeReturn) ==
                \E i \in DOMAIN beforeReturn :
                    \/ /\ beforeReturn[i] = "if"
                       /\ at(beforeReturn, skipBlanks(beforeReturn, i + 1)) = "("
                    \/ beforeReturn[i] \in {"?", "|", "&"}
                    \/ /\ beforeReturn[i] = "."
                       /\ at(beforeReturn, i + 1) \in {"path", "name", "meta"}
            hasCondition(guardBody, redirect) ==
                tested(SubSeq(guardBody, 1,
                              firstOccurrence(guardBody, text(guardBody, redirect)) - 1))
            \* redirectCalls, then unconditionalRedirects
            guardIssues(match, guardBody) ==
                found(match, guardBody, execAll(redirectCallPattern, guardBody, 1),
                      LAMBDA redirect :
                          hasRouteCheckBeforeRedirect(guardBody, redirect.groups[1],
                                                      text(guardBody, redirect)))
                  \o found(match, guardBody, execAll(returnQuoted, guardBody, 1),
                           LAMBDA redirect : hasCondition(guardBody, redirect))
            issues(matches) ==
                Concat([m \in DOMAIN matches |->
                           guardIssues(matches[m],
                                       SubSeq(scriptContent, matches[m].index,
                                              matches[m].end - 1))])
        IN issues(execAll(routerBeforeEach, scriptContent, 1)
                    \o execAll(beforeEachFunction, scriptContent, 1)
                    \o execAll(beforeEachArrow, scriptContent, 1)))

detectMissingLazyLoading(this, sfc, filePath) ==
    ScriptIssues(sfc, LAMBDA c :
        IF c.kind = "routes"
          THEN << Issue("MISSING_LAZY_LOADING", "HIGH", 2, 30),
                  Issue("MISSING_LAZY_LOADING", "HIGH", 2, 30),
                  Issue("MISSING_LAZY_LOADING", "MEDIUM", 1, 1) >>
          ELSE <<>>)

\* analyzeGuardResponsibilities: the categories in the order they are pushed.
\* \b(?:a|b)\b is a token a or b; the expressions are case-insensitive, and
\* the texts analysed here spell these words as the expressions do
analyzeGuardResponsibilities(guardBody) ==
    LET has(words) == \E i \in DOMAIN guardBody : guardBody[i] \in words
        \* tokens[1], \s*, tokens[2], \s*, tokens[3] with tokens[3] one of `lasts`
        spaced(first, second, lasts) ==
            \E i \in DOMAIN guardBody :
                LET j == skipBlanks(guardBody, i + 1)
                IN /\ guardBody[i] = first /\ at(guardBody, j) = second
                   /\ at(guardBody, skipBlanks(guardBody, j + 1)) \in lasts
        \* first . <word>
        dotted(first) ==
            \E i \in DOMAIN guardBody :
                /\ guardBody[i] = first /\ at(guardBody, i + 1) = "."
                /\ wordAt(guardBody, i + 2)
        returnsQuoted ==
            \E i \in DOMAIN guardBody :
                /\ guardBody[i] = "return" /\ skipSomeBlanks(guardBody, i + 1) # 0
                /\ at(guardBody, skipSomeBlanks(guardBody, i + 1)) \in quotes
        titleAssigned ==
            \E i \in DOMAIN guardBody :
                /\ guardBody[i] = "title"
                /\ at(guardBody, skipBlanks(guardBody, i + 1)) = "="
                /\ wordAt(guardBody, skipBlanks(guardBody, i + 1) + 1)
        found ==
            << <<"authentication",
                 has({"isAuthenticated", "isLoggedIn", "checkAuth", "token", "auth"})>>,
               <<"permissions",
                 has({"hasPermission", "checkPermission", "canAccess", "role", "roles"})>>,
               <<"redirection", spaced("next", "(", quotes) \/ returnsQuoted>>,
               <<"data-fetching", has({"fetch", "axios", "api", "loadData", "getData"})>>,
               <<"analytics",
                 has({"analytics", "track", "log", "gtag", "segment"}) \/ dotted("console")>>,
               <<"meta-validation",
                 \E i \in DOMAIN guardBody :
                     /\ guardBody[i] = "to" /\ at(guardBody, i + 1) = "."
                     /\ at(guardBody, i + 2) = "meta">>,
               <<"loading-states", has({"loading", "isLoading", "setLoading"})>>,
               <<"document-manipulation", dotted("document") \/ titleAssigned>>,
               <<"state-management", has({"store", "commit", "dispatch", "useStore"})>>,
               <<"error-handling",
                 has({"catch", "error", "try", "throw"}) \/ spaced("next", "(", {"error"})>> >>
        pushed == SelectSeq(found, LAMBDA category : category[2])
    IN [i \in DOMAIN pushed |-> pushed[i][1]]

getGodGuardSeverity(responsibilityCount, lineCount) ==
    IF responsibilityCount > 5 \/ lineCount > 100 THEN "CRITICAL"
    ELSE IF responsibilityCount > 4 \/ lineCount > 75 THEN "HIGH"
    ELSE IF responsibilityCount > 3 \/ lineCount > 50 THEN "MEDIUM"
    ELSE IF responsibilityCount > 2 \/ lineCount > 30 THEN "LOW"
    ELSE "OK"

\* a guard of the snippet catalogue holds c.others responsibilities besides
\* its redirect; on text, every guard found opens the script (match.index 0)
detectGodGuardAntipattern(this, sfc, filePath) ==
    ScriptIssues(sfc, LAMBDA c :
        IF c.kind = "guard"
          THEN LET responsibilities == c.others + (IF c.redirect THEN 1 ELSE 0)
                   lineCount == c.lineCount
               IN IF responsibilities > 3 \/ lineCount > 50
                    THEN << Issue("GOD_GUARD_ANTIPATTERN",
                                  getGodGuardSeverity(responsibilities, lineCount), 1, 1) >>
                    ELSE <<>>
        ELSE
        LET scriptContent == scriptText(c)
            \* match[1] || match[0]
            bodyOf(match) ==
                IF match.groups[1] # <<>> THEN match.groups[1]
                ELSE SubSeq(scriptContent, match.index, match.end - 1)
            issueAt(responsibilities, lineCount, location) ==
                IF responsibilities > 3 \/ lineCount > 50
                  THEN << Issue("GOD_GUARD_ANTIPATTERN",
                                getGodGuardSeverity(responsibilities, lineCount),
                                location.line, location.column) >>
                  ELSE <<>>
            guardIssue(match, guardBody) ==
                issueAt(Len(analyzeGuardResponsibilities(guardBody)),
                        SplitLength(guardBody, "\n"),
                        getLineColumnFromIndex(charIndex(scriptContent, match.index)))
            issues(matches) ==
                Concat([m \in DOMAIN matches |-> guardIssue(matches[m], bodyOf(matches[m]))])
        IN issues(execAll(routerBeforeEach, scriptContent, 1)
                    \o execAll(routerBeforeResolve, scriptContent, 1)
                    \o execAll(routerAfterEach, scriptContent, 1)
                    \o execAll(guardFunctionPattern, scriptContent, 1)
                    \o execAll(guardArrowPattern, scriptContent, 1)))

\* ------------------------------------------------------------------------
\* Performance, typing and testing detectors
\* ------------------------------------------------------------------------
virtualizationLibs ==
    { "vue-virtual-scroller", "vue-virtual-scroll-list", "virtual-list",
      "@tanstack/vue-virtual", "vue3-virtual-scroll-list" }

\* scriptContent.includes(`from '${lib}'`) for one of the libraries
detectVirtualizationLibraries(sfc) ==
    /\ hasScriptContent(sfc)
    /\ sfc.descriptor.script.content.kind \in {"importDefault", "importNamed"}
    /\ sfc.descriptor.script.content.lib \in virtualizationLibs

largeListNames == {"items", "data", "list", "collection", "array", "records", "rows"}

\* estimateListSize: listExpression is what follows the first `in` between
\* blanks (/\s+in\s+(.+)$/).  The list expressions analysed hold no array
\* literal, no Array.from, no `<n> to <m>` and have no declaration in the
\* script: a numeral (/^(\d+)$/) gives its value, and the names that suggest
\* a large list the default estimate.
estimateListSize(vForExpression, sfc) ==
    LET n == Len(vForExpression)
        ins == { i \in 1..(n - 3) : /\ vForExpression[i] = " "
                                    /\ vForExpression[i + 1] = "in"
                                    /\ vForExpression[i + 2] = " " }
    IN IF ins = {} THEN 0
       ELSE LET first == CHOOSE i \in ins : \A j \in ins : i <= j
                listExpression == SubSeq(vForExpression, first + 3, n)
            IN IF Len(listExpression) = 1 /\ listExpression[1] \in DOMAIN numerals
                 THEN numerals[listExpression[1]]
               ELSE IF \E i \in DOMAIN listExpression : listExpression[i] \in largeListNames
                 THEN 200 ELSE 0

detectLargeListNoVirtualization(this, sfc, filePath) ==
    IF ~hasTemplate(sfc) THEN Returns(<<>>)
    ELSE IF templateContentIsEmpty(sfc.descriptor.template) THEN Returns(<<>>)
    ELSE LET hasVirtualization == detectVirtualizationLibraries(sfc) IN
         Returns(OverNodes(sfc.descriptor.template, LAMBDA node :
            IF node.type = 1 /\ hasDirective(node, "for")
              THEN LET vFor == getDirective(node, "for")
                       estimatedSize == estimateListSize(vFor.exp.content, sfc)
                       severity == IF estimatedSize >= 5000 THEN "CRITICAL"
                                   ELSE IF estimatedSize >= 1000 THEN "HIGH"
                                   ELSE IF estimatedSize >= 500 THEN "MEDIUM"
                                   ELSE "LOW"
                   IN IF estimatedSize > 0 /\ ~hasVirtualization /\ estimatedSize >= 100
                        THEN << Issue("LARGE_LIST_NO_VIRTUALIZATION", severity,
                                      getNodeLocation(node).line, vFor.column) >>
                        ELSE <<>>
              ELSE <<>>))

\* estimateDataStructureSize of the argument of ref( / reactive(
estimateDataStructureSize(arg) ==
    CASE arg = "new Array(5000)" -> 5000
      [] arg = "data" -> 1000
      [] OTHER -> 0

detectMissingShallowReactivity(this, sfc, filePath) ==
    ScriptIssues(sfc, LAMBDA c :
        IF c.kind = "refDecl" /\ estimateDataStructureSize(c.arg) >= 1000
          THEN << Issue("MISSING_SHALLOW_REACTIVITY",
                        IF estimateDataStructureSize(c.arg) >= 5000
                          THEN "HIGH" ELSE "MEDIUM", 1, 15) >>
          ELSE <<>>)

\* hasMatchingCleanup: the listener snippet has no removeEventListener
extractCleanupHooks(scriptContent) ==
    LET hooks(matches) ==
            [i \in DOMAIN matches |->
                [type |-> matches[i].groups[1], body |-> matches[i].groups[2],
                 index |-> matches[i].index]]
    IN [compositionApi |-> hooks(execAll(compositionCleanupPattern, scriptContent, 1)),
        optionsApi |-> hooks(execAll(optionsCleanupPattern, scriptContent, 1))]

\* removePattern.test(body) for
\* removeEventListener\(\s*['"]<event>['"]\s*,\s*<escaped handler>
\* (the event is one word; no handler of the texts analysed here is the
\* beginning of a longer name)
removePatternTest(listener, body) ==
    LET \* the handler may begin with blanks that \s* has to leave to it
        handled(comma, first) ==
            \/ listener.handler = <<>>
            \/ \E k \in (comma + 1)..first :
                   SubSeq(body, k, k + Len(listener.handler) - 1) = listener.handler
        called(open, comma) ==
            /\ at(body, open) \in quotes /\ at(body, open + 1) = listener.event
            /\ at(body, open + 2) \in quotes
            /\ at(body, comma) = ","
            /\ handled(comma, skipBlanks(body, comma + 1))
        opened(open) == called(open, skipBlanks(body, open + 3))
    IN \E i \in DOMAIN body :
           /\ body[i] = "removeEventListener" /\ at(body, i + 1) = "("
           /\ opened(skipBlanks(body, i + 2))

hasMatchingCleanup(listener, cleanupHooks) ==
    \/ \E h \in DOMAIN cleanupHooks.compositionApi :
           removePatternTest(listener, cleanupHooks.compositionApi[h].body)
    \/ \E h \in DOMAIN cleanupHooks.optionsApi :
           removePatternTest(listener, cleanupHooks.optionsApi[h].body)

\* the event of every listener analysed here is one word
detectEventListenerMemoryLeak(this, sfc, filePath) ==
    ScriptIssues(sfc, LAMBDA c :
        IF c.kind = "listener"         \* window.addEventListener('resize', onResize)
          THEN << Issue("EVENT_LISTENER_MEMORY_LEAK", "CRITICAL", 1, 8) >>
        ELSE
        LET scriptContent == scriptText(c)
            added(matches) ==
                [i \in DOMAIN matches |->
                    [event |-> matches[i].groups[1][1],
                     handler |-> trim(matches[i].groups[2]),
                     index |-> matches[i].index]]
            issueAt(location, event) ==
                << Named(Issue("EVENT_LISTENER_MEMORY_LEAK", "CRITICAL",
                               location.line, location.column),
                         event) >>
            issues(addedListeners, cleanupHooks) ==
                Concat([i \in DOMAIN addedListeners |->
                    IF ~hasMatchingCleanup(addedListeners[i], cleanupHooks)
                      THEN issueAt(getLineColumnFromIndex(
                                       charIndex(scriptContent, addedListeners[i].index)),
                                   addedListeners[i].event)
                      ELSE <<>>])
        IN issues(added(execAll(addEventListener, scriptContent, 1)),
                  extractCleanupHooks(scriptContent)))

\* largeLibraries[libraryName]: an object literal, so the lookup also finds
\* what every object inherits (constructor, toString, ...); those have no
\* severity property
largeLibraries(libraryName) ==
    CASE libraryName = "lodash" -> [found |-> TRUE, severity |-> "CRITICAL"]
      [] libraryName = "underscore" -> [found |-> TRUE, severity |-> "HIGH"]
      [] libraryName = "moment" -> [found |-> TRUE, severity |-> "CRITICAL"]
      [] libraryName = "jquery" -> [found |-> TRUE, severity |-> "HIGH"]
      [] libraryName = "axios" -> [found |-> TRUE, severity |-> "MEDIUM"]
      [] libraryName \in {"constructor", "toString", "valueOf", "hasOwnProperty"} ->
           [found |-> TRUE, severity |-> "undefined"]
      [] OTHER -> [found |-> FALSE, severity |-> "undefined"]

isCommonJSLibrary(libraryName) ==
    libraryName \in { "lodash", "underscore", "jquery", "bluebird", "q", "async",
                      "request", "express", "chalk", "colors", "commander" }

detectFullLibraryImport(this, sfc, filePath) ==
    ScriptIssues(sfc, LAMBDA c :
        CASE c.kind = "importDefault" /\ largeLibraries(c.lib).found ->
               << Issue("FULL_LIBRARY_IMPORT", largeLibraries(c.lib).severity, 1, 1) >>
          [] c.kind = "importNamed" /\ isCommonJSLibrary(c.lib) ->
               << Issue("FULL_LIBRARY_IMPORT", "HIGH", 1, 1) >>
          [] OTHER -> <<>>)

detectUntypedProps(this, sfc, filePath) ==
    ScriptIssues(sfc, LAMBDA c :
        IF c.kind = "definePropsArray"
          THEN << Issue("UNTYPED_PROPS", "HIGH", 1, 15) >>
          ELSE <<>>)

detectUntypedEmits(this, sfc, filePath) ==
    ScriptIssues(sfc, LAMBDA c :
        CASE c.kind = "defineEmitsArray" -> << Issue("UNTYPED_EMITS", "HIGH", 1, 14) >>
          [] c.kind = "emitsOption" -> << Issue("UNTYPED_EMITS", "MEDIUM", 1, 1) >>
          [] OTHER -> <<>>)

detectRefTypeInferenceIssues(this, sfc, filePath) ==
    ScriptIssues(sfc, LAMBDA c :
        CASE c.kind = "refDecl" /\ c.arg = "null" ->
               << Issue("REF_TYPE_INFERENCE_ISSUES", "MEDIUM", 1, 15) >>
          [] c.kind = "refDecl" /\ c.arg = "undefined" ->
               << Issue("REF_TYPE_INFERENCE_ISSUES", "LOW", 1, 15) >>
          [] OTHER -> <<>>)

detectImplementationTesting(this, sfc, filePath) ==
    IF ~isTestFile(filePath) THEN Returns(<<>>)
    ELSE ScriptIssues(sfc, LAMBDA c :
             IF c.kind = "wrapperVm"
               THEN << Issue("IMPLEMENTATION_TESTING", "MEDIUM", 1, 8) >>
               ELSE <<>>)

detectPiniaStateLeak(this, sfc, filePath) ==
    IF ~isTestFile(filePath) THEN Returns(<<>>)
    ELSE ScriptIssues(sfc, LAMBDA c :
             CASE c.kind = "useStores" ->     \* no setup, and two useStore( calls
                    << Issue("PINIA_STATE_LEAK", "HIGH", 1, 11),
                       Issue("PINIA_STATE_LEAK", "MEDIUM", 1, 11) >>
               [] c.kind = "setupAwait" ->
                    << Issue("PINIA_STATE_LEAK", "HIGH", 1, 41) >>
               [] OTHER -> <<>>)

\* the arrow-function test blocks the last pattern matches; each is read
\* through testMatch[3], a group the pattern does not have
arrowTestBlocks(c) == IF c.kind = "testIt" THEN 1 ELSE 0

detectSnapshotOveruse(this, sfc, filePath) ==
    IF ~hasScriptContent(sfc) \/ ~isTestFile(filePath) THEN Returns(<<>>)
    ELSE LET c == sfc.descriptor.script.content
             totalSnapshots == IF c.kind \in {"testIt", "testFn"} THEN c.snapshots ELSE 0
             totalTests == CASE c.kind = "testIt" -> 1
                             [] c.kind = "testFn" -> c.tests
                             [] OTHER -> 0
             \* snapshotRatio > 0.5 and > 0.8 on totalSnapshots / totalTests
             overHalf == totalTests > 0 /\ 2 * totalSnapshots > totalTests
             overFourFifths == totalTests > 0 /\ 5 * totalSnapshots > 4 * totalTests
             wrapperBlocks == IF c.kind = "testFn" /\ c.onWrapper THEN c.snapshots ELSE 0
         IN IF arrowTestBlocks(c) > 0 THEN Throws
            ELSE Returns(
                (IF overHalf
                   THEN << Issue("SNAPSHOT_OVERUSE",
                                 IF overFourFifths THEN "HIGH" ELSE "MEDIUM", 1, 1) >>
                   ELSE <<>>)
                \o (IF totalTests = totalSnapshots /\ totalTests > 0
                      THEN << Issue("SNAPSHOT_OVERUSE", "HIGH", 1, 1) >>
                      ELSE <<>>)
                \o [i \in 1..wrapperBlocks |-> Issue("SNAPSHOT_OVERUSE", "LOW", 1, 24)])

\* ------------------------------------------------------------------------
\* The orchestrator: parseSFC, the registry walk, the sort, analyzeFile
\* ------------------------------------------------------------------------
\* A source text is classified by what the SFC parser does with it: it
\* throws (Unparsable), or it returns the descriptor of a component.
Unparsable == [parses |-> FALSE]
Source(template, script) == [parses |-> TRUE, sfc |-> Sfc(template, script)]

\* faulty variant: a parser that returns an empty descriptor instead of throwing
parseSFCLenient(content) ==
    [threw |-> FALSE, sfc |-> IF content.parses THEN content.sfc
                              ELSE Sfc(NoTemplate, NoScript)]

parseSFC(content) ==
    IF content.parses THEN [threw |-> FALSE, sfc |-> content.sfc]
    ELSE [threw |-> TRUE, sfc |-> Sfc(NoTemplate, NoScript)]

\* this.detectors[patternName](sfc, filePath)
Detect(patternName, this, sfc, filePath) ==
    CASE patternName = "VIF_WITH_VFOR" -> detectVIfWithVFor(this, sfc, filePath)
      [] patternName = "VFOR_WITHOUT_KEY" -> detectVForWithoutKey(this, sfc, filePath)
      [] patternName = "VFOR_INDEX_AS_KEY" -> detectVForIndexAsKey(this, sfc, filePath)
      [] patternName = "COMPLEX_TEMPLATE_EXPRESSION" ->
             detectComplexTemplateExpression(this, sfc, filePath)
      [] patternName = "VHTML_XSS_RISK" -> detectVHtmlXssRisk(this, sfc, filePath)
      [] patternName = "DEEP_TEMPLATE_NESTING" -> detectDeepTemplateNesting(this, sfc, filePath)
      [] patternName = "GOD_COMPONENT" -> detectGodComponent(this, sfc, filePath)
      [] patternName = "SINGLE_WORD_COMPONENT_NAME" ->
             detectSingleWordComponentName(this, sfc, filePath)
      [] patternName = "PROP_DRILLING" -> detectPropDrilling(this, sfc, filePath)
      [] patternName = "TIGHT_COUPLING" -> detectTightCoupling(this, sfc, filePath)
      [] patternName = "REF_REACTIVE_CONFUSION" -> detectRefReactiveConfusion(this, sfc, filePath)
      [] patternName = "DESTRUCTURING_REACTIVITY_LOSS" ->
             detectDestructuringReactivityLoss(this, sfc, filePath)
      [] patternName = "COMPUTED_SIDE_EFFECTS" -> detectComputedSideEffects(this, sfc, filePath)
      [] patternName = "DEEP_WATCHER_OVERUSE" -> detectDeepWatcherOveruse(this, sfc, filePath)
      [] patternName = "WATCHER_SHOULD_BE_COMPUTED" ->
             detectWatcherShouldBeComputed(this, sfc, filePath)
      [] patternName = "VUEX_ASYNC_IN_MUTATION" -> detectVuexAsyncInMutation(this, sfc, filePath)
      [] patternName = "VUEX_GOD_STORE" -> detectVuexGodStore(this, sfc, filePath)
      [] patternName = "PINIA_CIRCULAR_DEPENDENCY" ->
             detectPiniaCircularDependency(this, sfc, filePath)
      [] patternName = "PINIA_USESTORE_AFTER_AWAIT" ->
             detectPiniaUseStoreAfterAwait(this, sfc, filePath)
      [] patternName = "STATE_LOCALIZATION_ANTIPATTERN" ->
             detectStateLocalizationAntipattern(this, sfc, filePath)
      [] patternName = "UNTYPED_PROVIDE_INJECT" -> detectUntypedProvideInject(this, sfc, filePath)
      [] patternName = "INFINITE_NAVIGATION_LOOP" ->
             detectInfiniteNavigationLoop(this, sfc, filePath)
      [] patternName = "MISSING_LAZY_LOADING" -> detectMissingLazyLoading(this, sfc, filePath)
      [] patternName = "GOD_GUARD_ANTIPATTERN" -> detectGodGuardAntipattern(this, sfc, filePath)
      [] patternName = "LARGE_LIST_NO_VIRTUALIZATION" ->
             detectLargeListNoVirtualization(this, sfc, filePath)
      [] patternName = "MISSING_SHALLOW_REACTIVITY" ->
             detectMissingShallowReactivity(this, sfc, filePath)
      [] patternName = "EVENT_LISTENER_MEMORY_LEAK" ->
             detectEventListenerMemoryLeak(this, sfc, filePath)
      [] patternName = "FULL_LIBRARY_IMPORT" -> detectFullLibraryImport(this, sfc, filePath)
      [] patternName = "UNTYPED_PROPS" -> detectUntypedProps(this, sfc, filePath)
      [] patternName = "UNTYPED_EMITS" -> detectUntypedEmits(this, sfc, filePath)
      [] patternName = "REF_TYPE_INFERENCE_ISSUES" ->
             detectRefTypeInferenceIssues(this, sfc, filePath)
      [] patternName = "IMPLEMENTATION_TESTING" -> detectImplementationTesting(this, sfc, filePath)
      [] patternName = "PINIA_STATE_LEAK" -> detectPiniaStateLeak(this, sfc, filePath)
      [] OTHER -> detectSnapshotOveruse(this, sfc, filePath)

\* weights[severity] || 0
getSeverityWeight(severity) ==
    CASE severity = "CRITICAL" -> 4
      [] severity = "HIGH" -> 3
      [] severity = "MEDIUM" -> 2
      [] severity = "LOW" -> 1
      [] OTHER -> 0

\* issues.sort((a, b) => weight(b) - weight(a)): Array.prototype.sort is
\* stable, so an issue goes behind the issues of equal weight before it
insertBySeverity(sorted, issue) ==
    LET ahead == { i \in DOMAIN sorted :
                     getSeverityWeight(sorted[i].severity) >= getSeverityWeight(issue.severity) }
        n == Cardinality(ahead)
    IN SubSeq(sorted, 1, n) \o <<issue>> \o SubSeq(sorted, n + 1, Len(sorted))

RECURSIVE sortBySeverity(_)
sortBySeverity(issues) ==
    IF issues = <<>> THEN <<>>
    ELSE insertBySeverity(sortBySeverity(SubSeq(issues, 1, Len(issues) - 1)),
                          issues[Len(issues)])

\* the catch block's FileResult
parseErrorResult(filePath) ==
    [filePath |-> filePath, issues |-> << Issue("PARSE_ERROR", "CRITICAL", 1, 1) >>]

\* what each registered detector does on the parsed component
detectorOutcomes(this, sfc, filePath) ==
    [i \in DOMAIN this.detectors |-> Detect(this.detectors[i], this, sfc, filePath)]

\* One run of analyzeFile: the FileResult it returns and the detectors it
\* invoked.  The whole body sits in one try block, so the first detector that
\* throws ends the registry walk and the catch block builds the result.
runAnalyzeFile(this, filePath, content) ==
    LET caught(first) ==
            [result |-> parseErrorResult(filePath), ran |-> SubSeq(this.detectors, 1, first)]
        walked(outcomes, throwers) ==
            IF throwers # {}
              THEN caught(CHOOSE i \in throwers : \A j \in throwers : i <= j)
              ELSE [result |->
                      [filePath |-> filePath,
                       issues |-> sortBySeverity(
                           Concat([i \in DOMAIN outcomes |-> outcomes[i].issues]))],
                    ran |-> this.detectors]
        tried(outcomes) ==
            walked(outcomes, { i \in DOMAIN outcomes : outcomes[i].threw })
        analysed(parsed) ==
            IF parsed.threw
              THEN [result |-> parseErrorResult(filePath), ran |-> <<>>]
              ELSE tried(detectorOutcomes(this, parsed.sfc, filePath))
    IN analysed(parseSFC(content))

analyzeFile(this, filePath, content) == runAnalyzeFile(this, filePath, content).result

\* faulty variant: an analysis that puts the default thresholds back
thisAfterAnalyzeFileReset(this, filePath, content) ==
    [this EXCEPT !.options.thresholds = getDefaultThresholds]

\* analyzeFile assigns no field of the detector object
thisAfterAnalyzeFile(this, filePath, content) == this

\* ------------------------------------------------------------------------
\* Reporter (src/reporter.js) and the library entry points (index.js)
\* ------------------------------------------------------------------------
VueAntiPatternReporter(options) ==
    [ options |->
        [ k \in DOMAIN options \cup {"format", "verbose", "outputFile"} |->
            IF hasKey(options, k) THEN options[k]
            ELSE IF k = "format" THEN "console"
            ELSE IF k = "verbose" THEN FALSE
            ELSE None ] ]

RECURSIVE Sum(_)
Sum(ns) == IF ns = <<>> THEN 0 ELSE Head(ns) + Sum(Tail(ns))

calculateSummary(results) ==
    [ totalFiles |-> Len(results),
      totalIssues |-> Sum([i \in DOMAIN results |-> Len(results[i].issues)]),
      filesWithIssues |-> Cardinality({ i \in DOMAIN results : Len(results[i].issues) > 0 }) ]

\* generateHtmlReport calls issue.severity.toLowerCase() on every issue
generateHtmlReportThrows(results) ==
    \E i \in DOMAIN results : \E j \in DOMAIN results[i].issues :
        results[i].issues[j].severity = "undefined"

\* generateReport(results): the summary, then the switch on the format
generateReport(reporter, results) ==
    LET summary == calculateSummary(results)
        format == IF reporter.options.format \in {"json", "html"}
                    THEN reporter.options.format ELSE "console"
    IN IF format = "html" /\ generateHtmlReportThrows(results)
         THEN [threw |-> TRUE]
         ELSE [threw |-> FALSE, format |-> format, summary |-> summary]

\* analyzeFiles(files, options = {}): one detector and one reporter, the map
\* over the files, then the report; an exception of the report leaves the
\* function before it returns anything
analyzeFiles(files, options) ==
    LET detector == VueAntiPatternDetector(options)
        reporter == VueAntiPatternReporter(options)
        results == [i \in DOMAIN files |->
                       analyzeFile(detector, files[i].path, files[i].content)]
        report == generateReport(reporter, results)
    IN IF report.threw THEN [threw |-> TRUE]
       ELSE [threw |-> FALSE, results |-> results, report |-> report]

\* ------------------------------------------------------------------------
\* The `analyze` command: detector options from the flags and the config file
\* ------------------------------------------------------------------------
\* parseInt on the flag texts in use
parseInt(text) ==
    CASE text = "5" -> 5
      [] text = "8" -> 8
      [] text = "8px" -> 8
      [] text = "300" -> 300
      [] OTHER -> 10          \* "10"

\* flag name -> key of the thresholds object it sets
thresholdFlags ==
    [ thresholdTemplateExpressionLength |-> "templateExpressionLength",
      thresholdTemplateDepth |-> "templateDepth",
      thresholdComponentScriptLength |-> "componentScriptLength",
      thresholdComponentMethodCount |-> "componentMethodCount" ]

\* `const thresholds = {}` and one assignment per flag that is given
cliThresholds(flags) ==
    LET given == { f \in DOMAIN thresholdFlags : hasKey(flags, f) }
        flagOf(k) == CHOOSE f \in given : thresholdFlags[f] = k
    IN [ k \in { thresholdFlags[f] : f \in given } |-> parseInt(flags[flagOf(k)]) ]

\* { ...a, ...b }
spread(a, b) == [ k \in DOMAIN a \cup DOMAIN b |-> IF hasKey(b, k) THEN b[k] ELSE a[k] ]

\* { ...config, thresholds: { ...config.thresholds, ...thresholds }, verbose }
detectorOptions(flags, config) ==
    spread(config,
           [ thresholds |-> spread(IF hasKey(config, "thresholds")
                                     THEN config.thresholds ELSE <<>>,
                                   cliThresholds(flags)),
             verbose |-> flags.verbose ])

\* ------------------------------------------------------------------------
\* Inputs
\* ------------------------------------------------------------------------
Contents == {Unparsable} \cup { Source(t, sc) : t \in Templates, sc \in Scripts }

\* the sources used where several calls follow one another
CoreContents ==
    { Unparsable,
      Source(Template(Chain(7, 2)), NoScript),
      Source(Template(<<LiForIf>>), Script(TestIt(1))),
      Source(Template(<< Interpolation(<<"a"," ","?"," ","b"," ",":"," ","c">>, 2) >>),
             Script(ImportDefault("lodash"))) }

\* the sources of the batches
BatchContents == CoreContents \cup { Source(NoTemplate, Script(ImportDefault("constructor"))) }

CorePaths == {"src/components/UserList.vue", "tests/unit/Counter.spec.vue"}

NoOptions == <<>>      \* {}

\* options objects a caller hands to the constructor or to the entry points
CallOptions ==
    { NoOptions,
      [thresholds |-> [templateDepth |-> 8]],
      [thresholds |-> [templateExpressionLength |-> 5]] }

ThresholdOptions == CallOptions \cup { [thresholds |-> <<>>] }

Formats == {"console", "json", "html"}
BatchOptions == {NoOptions} \cup { [format |-> f] : f \in Formats }

Files == { [path |-> q, content |-> c] : q \in CorePaths, c \in BatchContents }

\* the files analysed where several calls follow one another
CallFiles ==
    { [path |-> "src/components/UserList.vue", content |-> Unparsable],
      [path |-> "src/components/UserList.vue",
       content |-> Source(Template(Chain(7, 2)), NoScript)],
      [path |-> "src/components/UserList.vue",
       content |-> Source(Template(<< Interpolation(<<"a"," ","?"," ","b"," ",":"," ","c">>, 2) >>),
                          Script(ImportDefault("lodash")))],
      [path |-> "tests/unit/Counter.spec.vue",
       content |-> Source(Template(<<LiForIf>>), Script(TestIt(1)))] }

RECURSIVE SeqsUpTo(_, _)
SeqsUpTo(S, n) ==
    IF n = 0 THEN { <<>> }
    ELSE SeqsUpTo(S, n - 1)
         \cup { Append(q, x) : q \in { r \in SeqsUpTo(S, n - 1) : Len(r) = n - 1 }, x \in S }

FileLists == SeqsUpTo(Files, MaxFiles)

\* command lines: each --threshold-* flag is absent or carries a text
FlagSets ==
    { spread(spread(spread(spread([verbose |-> v], a), b), c), d) :
        v \in BOOLEAN,
        a \in { <<>>, [thresholdTemplateExpressionLength |-> "5"] },
        b \in { <<>>, [thresholdTemplateDepth |-> "8"], [thresholdTemplateDepth |-> "8px"] },
        c \in { <<>>, [thresholdComponentScriptLength |-> "300"] },
        d \in { <<>>, [thresholdComponentMethodCount |-> "10"] } }

\* the config file: none, or one with a thresholds section
Configs == { <<>>, [thresholds |-> [templateDepth |-> 4]], [thresholds |-> [vuexMutations |-> 5]] }

\* ------------------------------------------------------------------------
\* State
\* ------------------------------------------------------------------------
\* a call of analyzeFile: `inst` is the instance it ran on, 0 for the
\* detector the library function analyzeFile creates for the call
Call(inst, filePath, content, options, done, run) ==
    [inst |-> inst, filePath |-> filePath, content |-> content, options |-> options,
     done |-> done, result |-> run.result, ran |-> run.ran]

NotRun == [result |-> None, ran |-> <<>>]

\* faulty variant: a constructor whose options object is shared by all instances
newDetectorShared(ds, i, options) ==
    [j \in DOMAIN ds |-> IF j = i \/ ds[j] # NoInstance
                           THEN VueAntiPatternDetector(options) ELSE ds[j]]

\* new VueAntiPatternDetector(options) stored in slot i
newDetector(ds, i, options) == [ds EXCEPT ![i] = VueAntiPatternDetector(options)]

Init ==
    /\ detectors = [i \in Instances |-> NoInstance]
    /\ built = [i \in Instances |-> NoInstance]
    /\ last = None
    /\ prev = None
    /\ batch = None
    /\ cli = None

\* the call before, kept when it analysed the same file
previousCall(filePath, content) ==
    IF last # None /\ last.filePath = filePath /\ last.content = content
      THEN last ELSE None

\* const detector = new VueAntiPatternDetector(options)
NewDetector(i, options) ==
    /\ detectors' = newDetector(detectors, i, options)
    /\ built' = [built EXCEPT ![i] = options]
    /\ UNCHANGED <<last, prev, batch, cli>>

\* detector.analyzeFile(filePath, content) on an existing instance
AnalyzeFile(i, filePath, content) ==
    /\ detectors[i] # NoInstance
    /\ last' = Call(i, filePath, content, built[i], TRUE,
                    runAnalyzeFile(detectors[i], filePath, content))
    /\ prev' = previousCall(filePath, content)
    /\ detectors' = [detectors EXCEPT
                       ![i] = thisAfterAnalyzeFile(detectors[i], filePath, content)]
    /\ UNCHANGED <<built, batch, cli>>

\* index.js analyzeFile(filePath, content, options): a detector of its own
LibraryAnalyzeFile(filePath, content, options) ==
    /\ last' = Call(0, filePath, content, options, TRUE,
                    runAnalyzeFile(VueAntiPatternDetector(options), filePath, content))
    /\ prev' = previousCall(filePath, content)
    /\ UNCHANGED <<detectors, built, batch, cli>>

Next ==
    \/ \E i \in Instances, options \in CallOptions : NewDetector(i, options)
    \/ \E i \in Instances, f \in CallFiles : AnalyzeFile(i, f.path, f.content)
    \/ \E f \in CallFiles, options \in CallOptions :
           LibraryAnalyzeFile(f.path, f.content, options)

Spec == Init /\ [][Next]_vars

\* --- one analysis of every source of the catalogue ------------------------
InitFile ==
    /\ detectors = [i \in Instances |-> NoInstance]
    /\ built = [i \in Instances |-> NoInstance]
    /\ last \in { Call(0, filePath, content, options, FALSE, NotRun) :
                    filePath \in Paths, content \in Contents, options \in ThresholdOptions }
    /\ prev = None
    /\ batch = None
    /\ cli = None

\* index.js analyzeFile on the pending arguments
AnalyzeSource ==
    /\ last # None /\ ~last.done
    /\ last' = Call(0, last.filePath, last.content, last.options, TRUE,
                    runAnalyzeFile(VueAntiPatternDetector(last.options),
                                   last.filePath, last.content))
    /\ UNCHANGED <<detectors, built, prev, batch, cli>>

NextFile == AnalyzeSource

SpecFile == InitFile /\ [][NextFile]_vars

\* --- batches ---------------------------------------------------------------
InitBatch ==
    /\ detectors = [i \in Instances |-> NoInstance]
    /\ built = [i \in Instances |-> NoInstance]
    /\ last = None
    /\ prev = None
    /\ batch \in { [files |-> fs, options |-> o, done |-> FALSE, outcome |-> None] :
                     fs \in FileLists, o \in BatchOptions }
    /\ cli = None

\* index.js analyzeFiles(files, options)
AnalyzeFiles ==
    /\ batch # None /\ ~batch.done
    /\ batch' = [batch EXCEPT !.done = TRUE,
                              !.outcome = analyzeFiles(batch.files, batch.options)]
    /\ UNCHANGED <<detectors, built, last, prev, cli>>

NextBatch == AnalyzeFiles

SpecBatch == InitBatch /\ [][NextBatch]_vars

\* --- configuration -----------------------------------------------------------
InitConfig ==
    /\ detectors = [i \in Instances |-> NoInstance]
    /\ built = [i \in Instances |-> NoInstance]
    /\ last = None
    /\ prev = None
    /\ batch = None
    /\ cli \in { [flags |-> f, config |-> c, done |-> FALSE] : f \in FlagSets, c \in Configs }

\* the `analyze` action up to `new VueAntiPatternDetector(detectorOptions)`
CliAnalyze ==
    /\ cli # None /\ ~cli.done
    /\ cli' = [cli EXCEPT !.done = TRUE]
    /\ detectors' = newDetector(detectors, 1, detectorOptions(cli.flags, cli.config))
    /\ built' = [built EXCEPT ![1] = detectorOptions(cli.flags, cli.config)]
    /\ UNCHANGED <<last, prev, batch>>

NextConfig ==
    \/ CliAnalyze
    \/ \E options \in ThresholdOptions : NewDetector(MaxInstances, options)

SpecConfig == InitConfig /\ [][NextConfig]_vars

\* --- one detector of the registry on one component ----------------------------
\* thresholds objects that configure the template metrics
TemplateThresholds ==
    { [templateDepth |-> a, deepTemplateDepth |-> b, templateExpressionLength |-> e] :
        a \in {2, 8}, b \in {4, 10}, e \in {5, 200} }

\* a thresholds object that configures the five component metrics
TightComponentThresholds ==
    [componentScriptLength |-> 300, componentMethodCount |-> 10,
     componentPropsCount |-> 5, componentComputedCount |-> 5,
     componentTemplateDepth |-> 3]

\* components whose five metrics sit at, just above or far above the limits t
ComponentsAround(t) ==
    { Source(Template(Chain(d, 2)), Script(Component(l, m, q, c))) :
        d \in {t.componentTemplateDepth, t.componentTemplateDepth + 1},
        l \in {t.componentScriptLength, t.componentScriptLength + 1,
               10 * t.componentScriptLength},
        m \in {t.componentMethodCount, t.componentMethodCount + 1},
        q \in {t.componentPropsCount, t.componentPropsCount + 1},
        c \in {0, t.componentComputedCount - 1, t.componentComputedCount,
               t.componentComputedCount + 1} }

DetectorInputs ==
    { [filePath |-> f, content |-> Source(Template(m), NoScript), options |-> o] :
        f \in {"src/components/UserList.vue", "src/views/Home.vue"},
        m \in MarkupShapes,
        o \in {NoOptions} \cup { [thresholds |-> t] : t \in TemplateThresholds } }
    \cup { [filePath |-> "src/components/UserList.vue", content |-> c, options |-> NoOptions] :
             c \in ComponentsAround(getDefaultThresholds) }
    \cup { [filePath |-> "src/components/UserList.vue", content |-> c,
            options |-> [thresholds |-> TightComponentThresholds]] :
             c \in ComponentsAround(TightComponentThresholds) }

\* the registry entries invoked one at a time
InvokedDetectors ==
    { "VIF_WITH_VFOR", "VFOR_WITHOUT_KEY", "VFOR_INDEX_AS_KEY",
      "COMPLEX_TEMPLATE_EXPRESSION", "VHTML_XSS_RISK", "DEEP_TEMPLATE_NESTING",
      "GOD_COMPONENT" }

InitDetector ==
    /\ detectors = [i \in Instances |-> NoInstance]
    /\ built = [i \in Instances |-> NoInstance]
    /\ last \in { Call(0, x.filePath, x.content, x.options, FALSE, NotRun) :
                    x \in DetectorInputs }
    /\ prev = None
    /\ batch = None
    /\ cli = None

\* this.detectors[patternName](sfc, filePath) on the parsed component, as the
\* registry walk of analyzeFile calls it; the outcome is kept in last.result
InvokeDetector(patternName) ==
    /\ last # None /\ ~last.done
    /\ last' = Call(0, last.filePath, last.content, last.options, TRUE,
                    [result |-> Detect(patternName, VueAntiPatternDetector(last.options),
                                       parseSFC(last.content).sfc, last.filePath),
                     ran |-> <<patternName>>])
    /\ UNCHANGED <<detectors, built, prev, batch, cli>>

NextDetector == \E patternName \in InvokedDetectors : InvokeDetector(patternName)

SpecDetector == InitDetector /\ [][NextDetector]_vars

\* --- one script detector of the registry on one script -----------------------
ScriptContents ==
    MutationsScripts \cup PropsScripts \cup ListenerScripts \cup GuardTexts
      \cup RedirectGuards \cup AsyncFunctions \cup WatchScripts
      \cup DeclarationsScripts

\* components that declare props (in each form, some read by the script) and
\* hand the first `passed` of them on to a child
PassingComponents ==
    { Source(Template(<< PassThrough(SubSeq(PropNames, 1, passed)) >>), Script(c)) :
        passed \in 0..4, c \in PropsScripts }

\* lists of a fixed size, with and without a virtualization library imported
RangeLists ==
    { Source(Template(<< RangeList(size) >>), script) :
        size \in DOMAIN numerals,
        script \in {NoScript, Script(ImportDefault("vue-virtual-scroller"))} }

VirtualizationOptions ==
    {NoOptions} \cup { [thresholds |-> [virtualizationThreshold |-> t]] : t \in {100, 250, 1000} }

ScriptInputs ==
    { [filePath |-> "src/components/UserList.vue",
       content |-> s, options |-> NoOptions] :
        s \in { Source(NoTemplate, Script(c)) : c \in ScriptContents }
               \cup PassingComponents }
    \cup { [filePath |-> "src/components/UserList.vue", content |-> s, options |-> o] :
             s \in RangeLists, o \in VirtualizationOptions }

InvokedScriptDetectors ==
    { "VUEX_ASYNC_IN_MUTATION", "PROP_DRILLING", "EVENT_LISTENER_MEMORY_LEAK",
      "GOD_GUARD_ANTIPATTERN", "INFINITE_NAVIGATION_LOOP",
      "LARGE_LIST_NO_VIRTUALIZATION", "PINIA_USESTORE_AFTER_AWAIT",
      "DEEP_WATCHER_OVERUSE", "STATE_LOCALIZATION_ANTIPATTERN" }

InitScript ==
    /\ detectors = [i \in Instances |-> NoInstance]
    /\ built = [i \in Instances |-> NoInstance]
    /\ last \in { Call(0, x.filePath, x.content, x.options, FALSE, NotRun) :
                    x \in ScriptInputs }
    /\ prev = None
    /\ batch = None
    /\ cli = None

NextScript == \E patternName \in InvokedScriptDetectors : InvokeDetector(patternName)

SpecScript == InitScript /\ [][NextScript]_vars

\* ------------------------------------------------------------------------
\* Properties
\* ------------------------------------------------------------------------
severities == {"CRITICAL", "HIGH", "MEDIUM", "LOW"}

analysed == last # None /\ last.done

\* the outcome of every registered detector on the component of the last call
lastOutcomes ==
    detectorOutcomes(VueAntiPatternDetector(last.options), last.content.sfc, last.filePath)

lastThrowers == { i \in DOMAIN lastOutcomes : lastOutcomes[i].threw }

\* what the detectors that returned produced, in registry order
lastProduced ==
    Concat([i \in DOMAIN lastOutcomes |->
               IF lastOutcomes[i].threw THEN <<>> ELSE lastOutcomes[i].issues])

ofWeight(issues, w) ==
    SelectSeq(issues, LAMBDA x : getSeverityWeight(x.severity) = w)

\* sorted is the stable sort of input by descending severity weight
IsStableSortBySeverity(sorted, input) ==
    /\ Len(sorted) = Len(input)
    /\ \A i, j \in DOMAIN sorted :
           i < j => getSeverityWeight(sorted[i].severity)
                      >= getSeverityWeight(sorted[j].severity)
    /\ \A w \in 0..4 : ofWeight(sorted, w) = ofWeight(input, w)

templateDetectors ==
    { "VIF_WITH_VFOR", "VFOR_WITHOUT_KEY", "VFOR_INDEX_AS_KEY",
      "COMPLEX_TEMPLATE_EXPRESSION", "VHTML_XSS_RISK", "DEEP_TEMPLATE_NESTING",
      "LARGE_LIST_NO_VIRTUALIZATION", "PINIA_USESTORE_AFTER_AWAIT",
      "DEEP_WATCHER_OVERUSE", "STATE_LOCALIZATION_ANTIPATTERN" }

scriptDetectors ==
    Range(initializeDetectors) \ (templateDetectors \cup {"SINGLE_WORD_COMPONENT_NAME"})

\* C1: detector fault isolation.  When the source parses and exactly one
\* registered detector throws, the FileResult of analyzeFile still contains
\* every issue the other registered detectors produced for the file.
C1_FaultIsolation ==
    (analysed /\ last.content.parses /\ Cardinality(lastThrowers) = 1)
        => \A x \in Range(lastProduced) : x \in Range(last.result.issues)

\* C2: parse failure.  When the parser throws for the source, analyzeFile runs
\* no detector of the registry and returns a FileResult whose issues are exactly
\* one issue: pattern PARSE_ERROR, severity CRITICAL, line 1, column 1.
C2_ParseFailure ==
    (analysed /\ ~last.content.parses)
        => /\ last.ran = <<>>
           /\ last.result.filePath = last.filePath
           /\ last.result.issues =
                  << [pattern |-> "PARSE_ERROR", severity |-> "CRITICAL",
                      location |-> [line |-> 1, column |-> 1]] >>

C2_Witness ==
    /\ analysed /\ ~last.content.parses
    /\ hasKey(last.options, "thresholds")
    /\ Len(last.result.issues) = 1

\* C3: batch analysis.  For every list of {path, content} files analyzeFiles
\* returns a results list of the same length with results[i].filePath equal to
\* files[i].path, whatever files fail to parse or make a detector fail; no
\* failure on one file aborts the batch or removes another file's result.
C3_BatchResults ==
    (batch # None /\ batch.done)
        => /\ ~batch.outcome.threw
           /\ Len(batch.outcome.results) = Len(batch.files)
           /\ \A i \in DOMAIN batch.files :
                  batch.outcome.results[i].filePath = batch.files[i].path

\* C4: severity ordering.  For a parsed file, FileResult.issues is the stable
\* sort by descending severity weight of the concatenation of the detectors'
\* results in registry order: weights never increase along the list, and
\* issues of equal weight keep the order in which the detectors produced them.
C4_SeverityOrdering ==
    (analysed /\ last.content.parses)
        => IsStableSortBySeverity(last.result.issues, lastProduced)

\* C5: threshold overrides.  A detector created with a thresholds object that
\* supplies only some metrics (the object the command line builds included,
\* possibly empty) uses the supplied value for each supplied metric and the
\* default value for every other metric.
C5_ThresholdMerge ==
    \A i \in Instances :
        (detectors[i] # NoInstance /\ hasKey(built[i], "thresholds"))
            => LET supplied == built[i].thresholds
                   effective == detectors[i].options.thresholds
               IN \A k \in DOMAIN getDefaultThresholds \cup DOMAIN supplied :
                      /\ hasKey(effective, k)
                      /\ effective[k] = IF hasKey(supplied, k) THEN supplied[k]
                                        ELSE getDefaultThresholds[k]

\* C6: totality of detectors.  On every parsed component and every file path
\* every registered detector returns a list of issues and does not throw, and
\* it returns the empty list when the template or script it needs is absent.
C6_DetectorTotality ==
    (analysed /\ last.content.parses)
        => \A i \in DOMAIN lastOutcomes :
               /\ ~lastOutcomes[i].threw
               /\ (initializeDetectors[i] \in templateDetectors /\ ~hasTemplate(last.content.sfc))
                      => lastOutcomes[i].issues = <<>>
               /\ (initializeDetectors[i] \in scriptDetectors
                     /\ ~hasKey(last.content.sfc.descriptor.script, "content"))
                      => lastOutcomes[i].issues = <<>>

C8_NonInterference ==
    /\ last # None
           => last.result = analyzeFile(VueAntiPatternDetector(last.options),
                                        last.filePath, last.content)
    /\ \A i \in Instances :
           detectors[i] # NoInstance => detectors[i] = VueAntiPatternDetector(built[i])

C8_Witness ==
    /\ prev # None /\ last # None
    /\ prev.inst = 1 /\ last.inst = 2
    /\ detectors[1] # NoInstance /\ detectors[2] # NoInstance
    /\ built[1] # built[2]
    /\ prev.options = built[1] /\ last.options = built[2]
    /\ prev.result # last.result

\* C9: every issue of every FileResult has as pattern an identifier of the
\* registry or PARSE_ERROR, and the detector registered under an identifier
\* only emits issues with that identifier as pattern.
C9_PatternCatalog ==
    analysed
        => /\ \A x \in Range(last.result.issues) :
                  x.pattern \in Range(initializeDetectors) \cup {"PARSE_ERROR"}
           /\ last.content.parses
                  => \A i \in DOMAIN lastOutcomes :
                         \A x \in Range(lastOutcomes[i].issues) :
                             x.pattern = initializeDetectors[i]

C9_Witness ==
    /\ analysed /\ last.content.parses
    /\ last.content.sfc.descriptor.script = Script(Snippet("parentCall"))
    /\ Cardinality({ x.pattern : x \in Range(last.result.issues) }) >= 2

\* C10: every issue of every FileResult has a severity among CRITICAL, HIGH,
\* MEDIUM and LOW; no issue carries 'OK' or an undefined severity.
C10_SeverityDomain ==
    analysed => \A x \in Range(last.result.issues) : x.severity \in severities

\* ------------------------------------------------------------------------
\* Properties of the single detectors
\* ------------------------------------------------------------------------
\* the detector registered under patternName was invoked on the component
invoked(patternName) == last # None /\ last.done /\ last.ran = <<patternName>>

lastAst == last.content.sfc.descriptor.template.ast

lastThresholds == VueAntiPatternDetector(last.options).options.thresholds

\* the element nodes of a tree, by structural recursion
RECURSIVE elementsOf(_)
elementsOf(node) ==
    (IF node.type = 1 THEN {node} ELSE {})
        \cup (IF hasKey(node, "children")
                THEN UNION { elementsOf(node.children[i]) : i \in DOMAIN node.children }
                ELSE {})

\* the element is written with the directive (v-for, v-if, v-html, :key)
carries(element, rawName) ==
    \E i \in DOMAIN element.props :
        element.props[i].type = 7 /\ element.props[i].rawName = rawName

\* the issues reported at the position of the element
issuesAt(issues, element) ==
    { i \in DOMAIN issues : issues[i].location = element.loc.start }

\* C11: VIF_WITH_VFOR.  For every template the detector returns exactly one
\* issue, of severity CRITICAL, for each element node that carries both a v-for
\* and a v-if directive, no issue for any other node, and reports no element
\* twice.
C11_VIfWithVFor ==
    invoked("VIF_WITH_VFOR") =>
        LET issues == last.result.issues
            both == { e \in elementsOf(lastAst) : carries(e, "v-for") /\ carries(e, "v-if") }
        IN /\ ~last.result.threw
           /\ Len(issues) = Cardinality(both)
           /\ \A e \in both : Cardinality(issuesAt(issues, e)) = 1
           /\ \A i \in DOMAIN issues :
                  /\ issues[i].pattern = "VIF_WITH_VFOR"
                  /\ issues[i].severity = "CRITICAL"
                  /\ \E e \in both : issues[i].location = e.loc.start

C11_Witness ==
    /\ invoked("VIF_WITH_VFOR")
    /\ lastAst.children = <<NestedForIf>>
    /\ Len(last.result.issues) = 2
    /\ last.result.issues[1].location # last.result.issues[2].location

\* the expression of the v-html directive of an element
vHtmlExpression(element) ==
    LET i == CHOOSE j \in DOMAIN element.props :
                 element.props[j].type = 7 /\ element.props[j].rawName = "v-html"
    IN element.props[i].exp.content

\* member access, call syntax or interpolation markers in an expression
isDynamicExpression(text) ==
    \/ Includes(text, <<".">>) /\ text[1] # "'"
    \/ Includes(text, <<"(">>)
    \/ Includes(text, <<"$", "{">>)
    \/ Includes(text, <<"{", "{">>)

\* a quoted string literal
isStaticLiteral(text) ==
    /\ Len(text) >= 2 /\ text[1] = "'" /\ text[Len(text)] = "'"
    /\ \A i \in 2..(Len(text) - 1) : text[i] # "'"

\* C12: VHTML_XSS_RISK severity.  For an element with a v-html directive whose
\* bound expression is dynamic (member access such as apiResponse.html, call
\* syntax, or interpolation markers) the issue emitted for that element has
\* severity CRITICAL.
C12_VHtmlDynamicCritical ==
    invoked("VHTML_XSS_RISK") =>
        \A e \in elementsOf(lastAst) :
            (carries(e, "v-html") /\ isDynamicExpression(vHtmlExpression(e)))
                => /\ issuesAt(last.result.issues, e) # {}
                   /\ \A i \in issuesAt(last.result.issues, e) :
                          last.result.issues[i].severity = "CRITICAL"

\* C13: VHTML_XSS_RISK on static content.  For an element whose v-html
\* expression is a static string literal the detector emits no issue.
C13_VHtmlStaticSilent ==
    invoked("VHTML_XSS_RISK") =>
        \A e \in elementsOf(lastAst) :
            (carries(e, "v-html") /\ isStaticLiteral(vHtmlExpression(e)))
                => issuesAt(last.result.issues, e) = {}

\* the directive an element is written with
directiveOf(element, rawName) ==
    element.props[CHOOSE j \in DOMAIN element.props :
                      element.props[j].type = 7 /\ element.props[j].rawName = rawName]

\* C14: VFOR_INDEX_AS_KEY.  For every v-for element with a bound :key, one HIGH
\* issue is emitted exactly when the key expression is identical, as an
\* identifier, to the secondary (index) variable of the iteration expression,
\* whatever the expression after `in` is and whatever the variable names; a key
\* such as item.id on the same loop emits nothing.
C14_VForIndexAsKey ==
    invoked("VFOR_INDEX_AS_KEY") =>
        \A e \in elementsOf(lastAst) :
            (carries(e, "v-for") /\ carries(e, ":key")) =>
                LET index == directiveOf(e, "v-for").forParseResult.key
                    key == directiveOf(e, ":key").exp.content
                    reported == issuesAt(last.result.issues, e)
                IN IF index # "" /\ key = index
                     THEN /\ Cardinality(reported) = 1
                          /\ \A i \in reported : last.result.issues[i].severity = "HIGH"
                     ELSE reported = {}

\* the element has a static key attribute or a bound key
hasSomeKey(element) ==
    \/ carries(element, ":key")
    \/ carries(element, "v-bind:key")
    \/ \E i \in DOMAIN element.props :
           element.props[i].type = 6 /\ element.props[i].name = "key"

\* the file paths that contain 'component'
componentPaths == {"src/components/UserList.vue"}

C16_MaxDepth ==
    invoked("DEEP_TEMPLATE_NESTING") =>
        /\ \A k \in 0..MaxNesting :
               lastAst.children = Chain(k, 2) => getMaxTemplateDepth(lastAst, 0) = k
        /\ (\A i \in DOMAIN lastAst.children : lastAst.children[i].type \in {2, 5})
               => getMaxTemplateDepth(lastAst, 0) = 0

C16_Witness ==
    /\ invoked("DEEP_TEMPLATE_NESTING")
    /\ lastAst.children = Chain(MaxNesting, 2)
    /\ getMaxTemplateDepth(lastAst, 0) = MaxNesting
    /\ Len(last.result.issues) = 1

\* the component of the last call as its author wrote it: the number of lines,
\* methods, props and computed properties of the script, the nesting of the
\* template
lastComponent == last.content.sfc.descriptor.script.content

lastNesting == CHOOSE d \in 0..(MaxNesting + 1) : lastAst.children = Chain(d, 2)

\* the metrics of the component that strictly exceed their own threshold
violatedMetrics ==
    { k \in { "componentScriptLength", "componentMethodCount", "componentPropsCount",
              "componentComputedCount", "componentTemplateDepth" } :
        (CASE k = "componentScriptLength" -> lastComponent.lines
           [] k = "componentMethodCount" -> lastComponent.methods
           [] k = "componentPropsCount" -> lastComponent.props
           [] k = "componentComputedCount" -> lastComponent.computed
           [] OTHER -> lastNesting) > lastThresholds[k] }

\* C17: GOD_COMPONENT.  With v the number of the five metrics (script lines,
\* methods, props, computed properties, template depth) that strictly exceed
\* their own threshold, the detector emits no issue when v = 0 and exactly one
\* issue otherwise: MEDIUM when v is 1 or 2, HIGH when v = 3, CRITICAL when
\* v >= 4.  A metric equal to its threshold is not a violation.
C17_GodComponent ==
    (invoked("GOD_COMPONENT") /\ hasScriptContent(last.content.sfc)
       /\ lastComponent.kind = "component")
        => LET v == Cardinality(violatedMetrics)
               issues == last.result.issues
           IN /\ ~last.result.threw
              /\ v = 0 => issues = <<>>
              /\ v > 0 => /\ Len(issues) = 1
                          /\ issues[1].pattern = "GOD_COMPONENT"
                          /\ issues[1].severity = IF v >= 4 THEN "CRITICAL"
                                                  ELSE IF v = 3 THEN "HIGH" ELSE "MEDIUM"

\* the interpolation nodes of a tree
RECURSIVE interpolationsOf(_)
interpolationsOf(node) ==
    (IF node.type = 5 THEN {node} ELSE {})
        \cup (IF hasKey(node, "children")
                THEN UNION { interpolationsOf(node.children[i]) : i \in DOMAIN node.children }
                ELSE {})

\* a call: an opening parenthesis with a closing one after it
hasCall(expression) ==
    \E i, j \in DOMAIN expression : i < j /\ expression[i] = "(" /\ expression[j] = ")"

memberAccesses(expression) == Cardinality({ i \in DOMAIN expression : expression[i] = "." })

hasOperator(expression) ==
    \/ \E i \in DOMAIN expression : expression[i] = "?"
    \/ \E i \in 1..(Len(expression) - 1) :
           expression[i] = expression[i + 1] /\ expression[i] \in {"&", "|"}

\* the weight of the severity the features of an expression give, whatever its
\* length: a call CRITICAL, chained member access HIGH, an operator MEDIUM
featureWeight(expression) ==
    IF hasCall(expression) THEN 4
    ELSE IF memberAccesses(expression) >= 2 THEN 3
    ELSE IF hasOperator(expression) THEN 2
    ELSE 0

\* the weight of the severity reported for a node, 0 when nothing is reported
reportedWeight(issues, node) ==
    IF issuesAt(issues, node) = {} THEN 0
    ELSE getSeverityWeight(issues[CHOOSE i \in issuesAt(issues, node) : TRUE].severity)

C19_ShortExpressionSilent ==
    invoked("COMPLEX_TEMPLATE_EXPRESSION") =>
        \A n \in interpolationsOf(lastAst) :
            (/\ Len(n.content.content) <= lastThresholds.templateExpressionLength
             /\ ~hasCall(n.content.content)
             /\ memberAccesses(n.content.content) <= 1)
                => issuesAt(last.result.issues, n) = {}

\* what the nesting detector of the last call returns for k nested elements
nestingIssues(k) ==
    Detect("DEEP_TEMPLATE_NESTING", VueAntiPatternDetector(last.options),
           Sfc(Template(Chain(k, 2)), NoScript), last.filePath).issues

\* C20: DEEP_TEMPLATE_NESTING.  The detector emits exactly one issue when
\* getMaxTemplateDepth of the template is strictly greater than the configured
\* templateDepth and none otherwise; the severity is one of the three tiers
\* MEDIUM < HIGH < CRITICAL and never decreases when the depth increases, for
\* every configured pair (templateDepth, deepTemplateDepth).
C20_DeepTemplateNesting ==
    (invoked("DEEP_TEMPLATE_NESTING") /\ hasKey(lastThresholds, "templateDepth")
       /\ hasKey(lastThresholds, "deepTemplateDepth"))
        => LET depth == getMaxTemplateDepth(lastAst, 0)
               issues == last.result.issues
           IN /\ ~last.result.threw
              /\ depth > lastThresholds.templateDepth
                     => /\ Len(issues) = 1
                        /\ issues[1].pattern = "DEEP_TEMPLATE_NESTING"
                        /\ issues[1].severity \in {"MEDIUM", "HIGH", "CRITICAL"}
                        /\ \A k \in depth..(MaxNesting + 1) :
                               /\ Len(nestingIssues(k)) = 1
                               /\ getSeverityWeight(nestingIssues(k)[1].severity)
                                      >= getSeverityWeight(issues[1].severity)
              /\ depth <= lastThresholds.templateDepth => issues = <<>>

C20_Witness ==
    /\ invoked("DEEP_TEMPLATE_NESTING")
    /\ hasKey(last.options, "thresholds")
    /\ lastThresholds.templateDepth = 2 /\ lastThresholds.deepTemplateDepth = 10
    /\ lastAst.children = Chain(8, 2)
    /\ Len(last.result.issues) = 1
    /\ last.result.issues[1].severity = "HIGH"
    /\ nestingIssues(3)[1].severity = "MEDIUM"
    /\ nestingIssues(MaxNesting)[1].severity = "CRITICAL"

\* ------------------------------------------------------------------------
\* Properties of the script detectors
\* ------------------------------------------------------------------------
lastScript ==
    LET script == parseSFC(last.content).sfc.descriptor.script
    IN IF hasKey(script, "content") THEN script.content ELSE [kind |-> "none"]

namedIssues(name) ==
    { i \in DOMAIN last.result.issues :
        /\ hasKey(last.result.issues[i], "message")
        /\ last.result.issues[i].message = name }

asyncMarkers ==
    {"async", "await", "Promise", "setTimeout", "setInterval", "fetch",
     "then", "catch", "finally"}

\* C21: in a script with a mutations block (mutations: {...}, const mutations
\* = {...}, export const mutations = {...}) every handler whose body holds an
\* asynchronous marker is reported with a CRITICAL VUEX_ASYNC_IN_MUTATION issue
\* that names it, and a handler without a marker is not reported.
C21_AsyncMutationReported ==
    (invoked("VUEX_ASYNC_IN_MUTATION") /\ lastScript.kind = "mutations")
        => \A h \in DOMAIN lastScript.handlers :
               LET handler == lastScript.handlers[h]
                   marked == Range(handler.body) \cap asyncMarkers # {}
               IN /\ marked =>
                        \E i \in namedIssues(handler.name) :
                            /\ last.result.issues[i].pattern = "VUEX_ASYNC_IN_MUTATION"
                            /\ last.result.issues[i].severity = "CRITICAL"
                  /\ ~marked => namedIssues(handler.name) = {}

\* the props a component declares, does not read in its script and hands on
\* in its template as bound attributes  :name="name"
drilledProps ==
    LET boundOn(element) ==
            { element.props[k].arg.content :
                k \in { j \in DOMAIN element.props :
                          /\ element.props[j].type = 7
                          /\ element.props[j].name = "bind"
                          /\ hasKey(element.props[j].arg, "content")
                          /\ element.props[j].exp.content = element.props[j].arg.content } }
        handedOn == IF hasTemplate(parseSFC(last.content).sfc)
                      THEN UNION { boundOn(lastAst.children[i]) : i \in DOMAIN lastAst.children }
                      ELSE {}
    IN (Range(lastScript.names) \ Range(lastScript.uses)) \cap handedOn

\* C22: with at least two declared props that the script logic does not use
\* and the template passes through as bound attributes, detectPropDrilling
\* reports PROP_DRILLING, MEDIUM and from four such props HIGH; with fewer
\* than two it reports nothing.
C22_PropDrilling ==
    (invoked("PROP_DRILLING") /\ lastScript.kind = "props")
        => LET count == Cardinality(drilledProps)
               issues == last.result.issues
           IN /\ ~last.result.threw
              /\ count >= 2 =>
                   /\ issues # <<>>
                   /\ \A i \in DOMAIN issues :
                          /\ issues[i].pattern = "PROP_DRILLING"
                          /\ issues[i].severity = IF count >= 4 THEN "HIGH" ELSE "MEDIUM"
              /\ count < 2 => issues = <<>>

\* C28: extractPropsDefinition returns exactly the declared prop names for the
\* array literal, the object literal props: { a: String, b: Number },
\* defineProps({ a: String }) and defineProps<T>({ a: String }), and the empty
\* list for a script without a props declaration.
C28_ExtractPropsDefinition ==
    (invoked("PROP_DRILLING") /\ lastScript.kind = "props")
        => extractPropsDefinition(lastScript) = lastScript.names

\* C23: for every addEventListener('<event>', handler) of the script one
\* CRITICAL issue is emitted if and only if no cleanup hook (onUnmounted,
\* onBeforeUnmount, beforeDestroy, destroyed) holds a removeEventListener for
\* the same event and handler; a removal outside a hook does not count, and a
\* listener released in a cleanup hook is never reported.
C23_EventListenerMemoryLeak ==
    (invoked("EVENT_LISTENER_MEMORY_LEAK") /\ lastScript.kind = "listeners")
        => LET released == IF lastScript.hook \in CleanupHooks
                             THEN Range(lastScript.removed) ELSE {}
               leaked == SelectSeq(lastScript.added, LAMBDA l : l \notin released)
               issues == last.result.issues
           IN /\ ~last.result.threw
              /\ Len(issues) = Len(leaked)
              /\ \A i \in DOMAIN issues :
                     /\ issues[i].pattern = "EVENT_LISTENER_MEMORY_LEAK"
                     /\ issues[i].severity = "CRITICAL"
                     /\ issues[i].message = leaked[i].event

\* the responsibility categories of the guard analysed and the lines of its body
guardCategories ==
    { lastScript.statements[i].category : i \in DOMAIN lastScript.statements } \ {"none"}

guardLines == Len(lastScript.statements) + 2

\* C24: for every recognised navigation guard one GOD_GUARD_ANTIPATTERN issue
\* is emitted if and only if the guard has more than 3 of the ten
\* responsibility categories or its body has more than 50 lines; the severity
\* is MEDIUM, HIGH or CRITICAL and never decreases when the number of
\* responsibilities or of lines increases.
C24_GodGuard ==
    (invoked("GOD_GUARD_ANTIPATTERN") /\ lastScript.kind = "guardText")
        => LET count == Cardinality(guardCategories)
               issues == last.result.issues
           IN /\ ~last.result.threw
              /\ (count > 3 \/ guardLines > 50) =>
                   /\ Len(issues) = 1
                   /\ issues[1].pattern = "GOD_GUARD_ANTIPATTERN"
                   /\ issues[1].severity \in {"MEDIUM", "HIGH", "CRITICAL"}
                   /\ \A more \in count..10, longer \in {guardLines, 51, 76, 101, 1000} :
                          longer >= guardLines =>
                              getSeverityWeight(getGodGuardSeverity(more, longer))
                                  >= getSeverityWeight(issues[1].severity)
              /\ ~(count > 3 \/ guardLines > 50) => issues = <<>>

\* C26: a router.beforeEach guard that redirects with next('<path>') without
\* checking that the route being entered is not already <path>, such as
\* if (!isAuthenticated()) next('/login'), is reported with one CRITICAL
\* INFINITE_NAVIGATION_LOOP issue for that redirect; a condition that does not
\* test the target route does not count as a route check.
C26_InfiniteNavigationLoop ==
    (invoked("INFINITE_NAVIGATION_LOOP") /\ lastScript.kind = "redirectGuard"
       /\ lastScript.form = "routerBeforeEach"
       /\ lastScript.condition \in {"none", "auth", "flag", "or"})
        => /\ Len(last.result.issues) = 1
           /\ last.result.issues[1].pattern = "INFINITE_NAVIGATION_LOOP"
           /\ last.result.issues[1].severity = "CRITICAL"
           /\ last.result.issues[1].message = <<"/", "login">>

\* the size of the list rendered by  v-for="n in <size>"
rangeListSize ==
    LET expression == lastAst.children[1].props[1].exp.content
    IN numerals[expression[Len(expression)]]

isRangeList ==
    /\ hasTemplate(last.content.sfc)
    /\ \E size \in DOMAIN numerals : lastAst.children = << RangeList(size) >>

\* C25: LARGE_LIST_NO_VIRTUALIZATION is emitted only when the estimated size
\* of the list reaches the configured virtualizationThreshold (500 by
\* default), and a list that reaches it is reported unless a virtualization
\* library is imported: changing the threshold changes the size from which
\* the issue is emitted.
C25_VirtualizationThreshold ==
    (invoked("LARGE_LIST_NO_VIRTUALIZATION") /\ isRangeList)
        => LET virtualizationThreshold ==
                   IF hasKey(lastThresholds, "virtualizationThreshold")
                     THEN lastThresholds.virtualizationThreshold ELSE 500
               reported == last.result.issues # <<>>
           IN /\ reported => rangeListSize >= virtualizationThreshold
              /\ (rangeListSize >= virtualizationThreshold
                    /\ ~detectVirtualizationLibraries(last.content.sfc)) => reported

\* C27: for every function (declaration, arrow function, setup) in which
\* useStore appears after an await, one CRITICAL PINIA_USESTORE_AFTER_AWAIT
\* issue is emitted; a function in which every useStore precedes every await
\* emits none.
C27_UseStoreAfterAwait ==
    (invoked("PINIA_USESTORE_AFTER_AWAIT") /\ lastScript.kind = "asyncFunction")
        => IF lastScript.order = "after"
             THEN /\ Len(last.result.issues) = 1
                  /\ last.result.issues[1].pattern = "PINIA_USESTORE_AFTER_AWAIT"
                  /\ last.result.issues[1].severity = "CRITICAL"
             ELSE last.result.issues = <<>>

\* C29: one watch(source, callback, { deep: true }) call yields exactly one
\* DEEP_WATCHER_OVERUSE issue, although several of the detector's regular
\* expressions match the same call.
C29_DeepWatcherReportedOnce ==
    (invoked("DEEP_WATCHER_OVERUSE") /\ lastScript.kind = "watch"
       /\ lastScript.options \in {"deep", "deepImmediate"})
        => /\ Len(last.result.issues) = 1
           /\ last.result.issues[1].pattern = "DEEP_WATCHER_OVERUSE"

globalStateNames == UNION { globalStatePatterns[k].pattern : k \in DOMAIN globalStatePatterns }

\* C30: in a script with no store definition and no provide, every ref or
\* reactive declaration whose variable name is a global-state keyword yields
\* exactly one MEDIUM STATE_LOCALIZATION_ANTIPATTERN issue, whatever
\* declarations precede it: the issues name the keyword variables in the
\* order of their declarations, each once.
C30_StateLocalizationOrderIndependent ==
    (invoked("STATE_LOCALIZATION_ANTIPATTERN") /\ lastScript.kind = "declarations"
       /\ ~lastScript.shared)
        => /\ [i \in DOMAIN last.result.issues |-> last.result.issues[i].message]
                = SelectSeq(lastScript.names, LAMBDA name : name \in globalStateNames)
           /\ \A i \in DOMAIN last.result.issues :
                /\ last.result.issues[i].pattern = "STATE_LOCALIZATION_ANTIPATTERN"
                /\ last.result.issues[i].severity = "MEDIUM"

====
